---- MODULE Spec2Model ----
(***************************************************************************)
(* A model of the sundown Markdown parser of src/markdown.h: the document  *)
(* driver sd_markdown_render (reference collection, tab expansion, line    *)
(* ending normalisation), the reference table, the scratch-buffer pools,   *)
(* the inline recognizers and the block recognizers.                       *)
(*                                                                         *)
(* Bytes are integers 0..255.  A C pointer into a buffer is a pair         *)
(* (d, b): the sequence d holding the buffer and the 0-based offset b of   *)
(* the pointer in it, so data[i] is By(d, b + i).                          *)
(***************************************************************************)
EXTENDS Integers, Sequences, FiniteSets, TLC

(***************************************************************************)
(* Bytes the parser tests for.                                             *)
(***************************************************************************)
TAB == 9
NL == 10
CR == 13
SP == 32
BANG == 33
DQUOTE == 34
HASH == 35
AMP == 38
SQUOTE == 39
LPAREN == 40
RPAREN == 41
STAR == 42
PLUS == 43
COMMA == 44
DASH == 45
DOT == 46
SLASH == 47
COLON == 58
SEMI == 59
LANGLE == 60
EQUALS == 61
RANGLE == 62
QMARK == 63
ATSIGN == 64
LBRACKET == 91
BACKSLASH == 92
RBRACKET == 93
CARET == 94
UNDERSCORE == 95
BACKTICK == 96
LBRACE == 123
PIPE == 124
RBRACE == 125
TILDE == 126
BOM0 == 239
BOM1 == 187
BOM2 == 191

UTF8_BOM == <<BOM0, BOM1, BOM2>>

REF_TABLE_SIZE == 8

(***************************************************************************)
(* Reading bytes of a buffer.                                              *)
(***************************************************************************)
Min(S) == CHOOSE x \in S : \A y \in S : x <= y
Max(S) == CHOOSE x \in S : \A y \in S : x >= y

\* data[i] for a 0-based index i
By(d, i) == d[i + 1]

\* the bytes data[a] .. data[b-1]
Sub(d, a, b) == SubSeq(d, a + 1, b)

\* while (i < end && data[i] is in S) i++;
SkipIn(d, i, end, S) ==
    IF i >= end THEN i
    ELSE Min({j \in i..(end - 1) : By(d, j) \notin S} \cup {end})

\* while (i < end && data[i] is not in S) i++;
SkipTo(d, i, end, S) ==
    IF i >= end THEN i
    ELSE Min({j \in i..(end - 1) : By(d, j) \in S} \cup {end})

isupper(c) == c >= 65 /\ c <= 90
islower(c) == c >= 97 /\ c <= 122
isdigit(c) == c >= 48 /\ c <= 57
isalpha(c) == isupper(c) \/ islower(c)
isalnum(c) == isalpha(c) \/ isdigit(c)
tolower(c) == IF isupper(c) THEN c + 32 ELSE c

(***************************************************************************)
(* The reference table: REF_TABLE_SIZE bucket chains of link_ref records.  *)
(* A record is [id, link, title, addr]; addr names its calloc'ed block, a  *)
(* NULL title is the empty sequence.                                       *)
(***************************************************************************)
\* An unsigned int is kept as <<high 16 bits, low 16 bits>>.
\* hash = tolower(c) + (hash << 6) + (hash << 16) - hash, modulo 2^32:
\* with hash = hi * 2^16 + lo this is 2^16 * (63 hi + lo) + 63 lo + c.
Half == 65536

\* the byte folded in as it is, without tolower
hash_step_cased(hash, c) ==
    LET lo == 63 * hash[2] + c
        hi == 63 * hash[1] + hash[2] + (lo \div Half)
    IN <<hi % Half, lo % Half>>

hash_step(hash, c) ==
    LET lo == 63 * hash[2] + tolower(c)
        hi == 63 * hash[1] + hash[2] + (lo \div Half)
    IN <<hi % Half, lo % Half>>

RECURSIVE hash_from(_, _, _)
hash_from(name, k, hash) ==
    IF k > Len(name) THEN hash
    ELSE hash_from(name, k + 1, hash_step(hash, name[k]))

hash_link_ref(name) == hash_from(name, 1, <<0, 0>>)

\* id % REF_TABLE_SIZE
bucket_of(id) == id[2] % REF_TABLE_SIZE

NoRefs == [b \in 0..(REF_TABLE_SIZE - 1) |-> <<>>]

\* the record inserted without its title
add_link_ref_untitled(refs, name, link, title, addr) ==
    LET id == hash_link_ref(name)
        b == bucket_of(id)
    IN [refs EXCEPT ![b] = <<[id |-> id, link |-> link, title |-> <<>>,
                              addr |-> addr]>> \o @]

\* the new record at the tail of its bucket chain
add_link_ref_tail(refs, name, link, title, addr) ==
    LET id == hash_link_ref(name)
        b == bucket_of(id)
    IN [refs EXCEPT ![b] = @ \o <<[id |-> id, link |-> link, title |-> title,
                                    addr |-> addr]>>]

\* the new record goes to the head of its bucket chain
add_link_ref(refs, name, link, title, addr) ==
    LET id == hash_link_ref(name)
        b == bucket_of(id)
    IN [refs EXCEPT ![b] = <<[id |-> id, link |-> link, title |-> title,
                              addr |-> addr]>> \o @]

\* the first record of the bucket chain with the same fingerprint, or NULL
NullRef == [id |-> <<-1, -1>>, link |-> <<>>, title |-> <<>>, addr |-> 0]

find_link_ref(refs, name) ==
    LET hash == hash_link_ref(name)
        chain == refs[bucket_of(hash)]
        hit == {k \in 1..Len(chain) : chain[k].id = hash}
    IN IF hit = {} THEN NullRef ELSE chain[Min(hit)]

\* the blocks free_link_refs passes to free(), as a count per block
FreedBy(refs, addr) ==
    Cardinality(UNION {{<<b, k>> : k \in {j \in 1..Len(refs[b]) :
                                              refs[b][j].addr = addr}} :
                       b \in 0..(REF_TABLE_SIZE - 1)})

\* only the head of each bucket chain freed
free_link_refs_heads(refs, heap) ==
    [a \in 1..Len(heap) |->
        heap[a] + Cardinality({b \in 0..(REF_TABLE_SIZE - 1) :
                                  refs[b] # <<>> /\ refs[b][1].addr = a})]

free_link_refs(refs, heap) ==
    [a \in 1..Len(heap) |-> heap[a] + FreedBy(refs, a)]

(***************************************************************************)
(* is_ref: whether a link-reference definition starts at data[beg].        *)
(* The result is [ok, last, name, link, title].                            *)
(***************************************************************************)
NotRef == [ok |-> FALSE, last |-> 0, name |-> <<>>, link |-> <<>>, title |-> <<>>]

\* the title may start at data[title_offset]; its line ends at data[eol]
is_ref_title_end(d, end, line_end0, id_offset, id_end, link_offset, link_end,
                 hasTitle, title_offset, eol) ==
    LET title_end0 == IF eol + 1 < end /\ By(d, eol) = NL /\ By(d, eol + 1) = CR
                      THEN eol + 1 ELSE eol
        \* stepping back over trailing spaces
        back == IF eol - 1 <= title_offset THEN eol - 1
                ELSE Max({j \in title_offset..(eol - 1) :
                             j = title_offset \/ By(d, j) # SP})
        closed == hasTitle /\ back > title_offset
                  /\ By(d, back) \in {SQUOTE, DQUOTE, RPAREN}
        line_end == IF closed THEN title_end0 ELSE line_end0
        title_end == IF ~hasTitle THEN 0 ELSE IF closed THEN back ELSE title_end0
    IN IF line_end = 0 \/ link_end = link_offset THEN NotRef
       ELSE [ok |-> TRUE, last |-> line_end,
             name |-> Sub(d, id_offset, id_end),
             link |-> Sub(d, link_offset, link_end),
             title |-> IF title_end > title_offset
                       THEN Sub(d, title_offset, title_end) ELSE <<>>]

is_ref_title(d, end, i0, line_end0, id_offset, id_end, link_offset, link_end) ==
    LET hasTitle == i0 + 1 < end /\ By(d, i0) \in {SQUOTE, DQUOTE, LPAREN}
    IN is_ref_title_end(d, end, line_end0, id_offset, id_end, link_offset,
                        link_end, hasTitle, IF hasTitle THEN i0 + 1 ELSE 0,
                        SkipTo(d, i0 + 1, end, {NL, CR}))

\* the blanks after the link end at data[i3]
is_ref_eol(d, end, id_offset, id_end, link_offset, link_end, i3) ==
    LET line_end0 == IF i3 + 1 < end /\ By(d, i3) = NL /\ By(d, i3 + 1) = CR
                     THEN i3 + 1
                     ELSE IF i3 >= end \/ By(d, i3) \in {CR, NL} THEN i3 ELSE 0
    IN IF i3 < end /\ By(d, i3) \notin {NL, CR, SQUOTE, DQUOTE, LPAREN}
       THEN NotRef
       ELSE is_ref_title(d, end,
                IF line_end0 # 0 THEN SkipIn(d, line_end0 + 1, end, {SP}) ELSE i3,
                line_end0, id_offset, id_end, link_offset, link_end)

\* the link is data[link_offset..i2), less a closing '>'
is_ref_link_end(d, end, id_offset, id_end, link_offset, i2) ==
    is_ref_eol(d, end, id_offset, id_end, link_offset,
               IF By(d, i2 - 1) = RANGLE THEN i2 - 1 ELSE i2,
               SkipIn(d, i2, end, {SP}))

is_ref_link(d, end, i0, id_offset, id_end) ==
    LET i1 == IF By(d, i0) = LANGLE THEN i0 + 1 ELSE i0
    IN is_ref_link_end(d, end, id_offset, id_end, i1,
                       SkipTo(d, i1, end, {SP, NL, CR}))

\* the blanks after the colon end at data[i2]
is_ref_spacer(d, end, id_offset, id_end, i2) ==
    LET i3 == IF i2 < end /\ By(d, i2) \in {NL, CR}
              THEN IF i2 + 1 < end /\ By(d, i2 + 1) = CR /\ By(d, i2) = NL
                   THEN i2 + 2 ELSE i2 + 1
              ELSE i2
        i4 == SkipIn(d, i3, end, {SP})
    IN IF i4 >= end THEN NotRef
       ELSE is_ref_link(d, end, i4, id_offset, id_end)

\* the id is data[id_offset..id_end)
is_ref_id(d, end, id_offset, id_end) ==
    IF id_end >= end \/ By(d, id_end) # RBRACKET THEN NotRef
    ELSE IF id_end + 1 >= end \/ By(d, id_end + 1) # COLON THEN NotRef
    ELSE is_ref_spacer(d, end, id_offset, id_end,
                       SkipIn(d, id_end + 2, end, {SP}))

\* up to 3 optional leading spaces
is_ref_at(d, end, i0, sp) ==
    IF sp = 4 THEN NotRef
    ELSE IF By(d, i0) # LBRACKET THEN NotRef
    ELSE is_ref_id(d, end, i0 + 1,
                   SkipTo(d, i0 + 1, end, {NL, CR, RBRACKET}))

\* the spaces at data[beg], 4 for four and more
leading_spaces(d, beg) ==
    IF By(d, beg) # SP THEN 0
    ELSE IF By(d, beg + 1) # SP THEN 1
    ELSE IF By(d, beg + 2) # SP THEN 2
    ELSE IF By(d, beg + 3) # SP THEN 3 ELSE 4

\* definitions seen only ahead of any other line
is_ref_ahead(d, beg, end) ==
    IF beg # 0 \/ beg + 3 >= end THEN NotRef
    ELSE is_ref_at(d, end, beg + leading_spaces(d, beg), leading_spaces(d, beg))

is_ref(d, beg, end) ==
    IF beg + 3 >= end THEN NotRef
    ELSE is_ref_at(d, end, beg + leading_spaces(d, beg), leading_spaces(d, beg))

(***************************************************************************)
(* expand_tabs: the line with every tab replaced by spaces up to the next  *)
(* multiple of 4 of the column counter `tab`.                              *)
(***************************************************************************)
\* a tab as four spaces whatever the column
tab_spaces_four(out, tab) ==
    [out |-> out \o <<SP, SP, SP, SP>>, tab |-> tab + 4]

RECURSIVE tab_spaces(_, _)
\* do { sd_bufputc(ob, ' '); tab++; } while (tab % 4);
tab_spaces(out, tab) ==
    LET out1 == Append(out, SP)
        tab1 == tab + 1
    IN IF tab1 % 4 # 0 THEN tab_spaces(out1, tab1)
       ELSE [out |-> out1, tab |-> tab1]

RECURSIVE expand_from(_, _, _, _)
expand_from(out, line, i, tab) ==
    IF i >= Len(line) THEN out
    ELSE LET org == i
             i1 == SkipTo(line, i, Len(line), {TAB})
             tab1 == tab + (i1 - org)
             out1 == IF i1 > org THEN out \o Sub(line, org, i1) ELSE out
         IN IF i1 >= Len(line) THEN out1
            ELSE LET r == tab_spaces(out1, tab1)
                 IN expand_from(r.out, line, i1 + 1, r.tab)

expand_tabs(ob, line) == expand_from(ob, line, 0, 0)

(***************************************************************************)
(* The callback table.  A callback is named by its field of struct         *)
(* sd_callbacks; md.cb is the set of the non-NULL callbacks and md.ret0    *)
(* the set of span callbacks that return 0 (and write nothing).            *)
(***************************************************************************)
BlockCallbacks == {"blockcode", "blockquote", "blockhtml", "header", "hrule",
                   "list", "listitem", "paragraph", "table", "table_row",
                   "table_cell"}
SpanCallbacks == {"autolink", "codespan", "double_emphasis", "emphasis",
                  "image", "linebreak", "link", "raw_html_tag",
                  "triple_emphasis", "strikethrough", "superscript"}
LowCallbacks == {"entity", "normal_text"}
DocCallbacks == {"doc_header", "doc_footer"}
AllCallbacks == BlockCallbacks \cup SpanCallbacks \cup LowCallbacks
                    \cup DocCallbacks

Extensions == {"NO_INTRA_EMPHASIS", "TABLES", "FENCED_CODE", "AUTOLINK",
               "STRIKETHROUGH", "SPACE_HEADERS", "SUPERSCRIPT", "LAX_SPACING"}


(***************************************************************************)
(* The renderer of the checks: normal_text and entity copy their text, any *)
(* other callback writes a tag byte, its arguments separated by 254 and a  *)
(* closing 255; an integer argument n is the byte 192 + n.  A span         *)
(* callback of md.ret0 writes nothing and returns 0.                       *)
(***************************************************************************)
CbIndex == [blockcode |-> 1, blockquote |-> 2, blockhtml |-> 3, header |-> 4,
            hrule |-> 5, list |-> 6, listitem |-> 7, paragraph |-> 8,
            table |-> 9, table_row |-> 10, table_cell |-> 11, autolink |-> 12,
            codespan |-> 13, double_emphasis |-> 14, emphasis |-> 15,
            image |-> 16, linebreak |-> 17, link |-> 18, raw_html_tag |-> 19,
            triple_emphasis |-> 20, strikethrough |-> 21, superscript |-> 22,
            entity |-> 23, normal_text |-> 24, doc_header |-> 25,
            doc_footer |-> 26]

IntArg(n) == <<192 + n>>

RECURSIVE JoinArgs(_, _)
JoinArgs(args, k) ==
    IF k > Len(args) THEN <<>>
    ELSE (IF k > 1 THEN <<254>> ELSE <<>>) \o args[k] \o JoinArgs(args, k + 1)

Emit(name, args) ==
    IF name \in LowCallbacks THEN args[1]
    ELSE <<128 + CbIndex[name]>> \o JoinArgs(args, 1) \o <<255>>

\* rndr->cb.name(ob, args..., rndr->opaque) for a non-NULL callback
Call(m, st, ob, name, args) ==
    IF name \in m.ret0
    THEN [st |-> [st EXCEPT !.trace = Append(@, name)], ob |-> ob, ret |-> 0]
    ELSE [st |-> [st EXCEPT !.trace = Append(@, name)],
          ob |-> ob \o Emit(name, args), ret |-> 1]

(***************************************************************************)
(* The scratch-buffer pools.  The parse state st is [pool, in_link_body,   *)
(* trace, leak, stall, chain, deep, flat].                                 *)
(***************************************************************************)
BUFFER_BLOCK == "blk"
BUFFER_SPAN == "spn"

\* stack_grow(st, new_size)
stack_grow(pool, new_size) ==
    IF pool.asize >= new_size THEN pool
    ELSE [pool EXCEPT !.asize = new_size,
                      !.size = IF @ > new_size THEN new_size ELSE @]

\* stack_push(st, item): st->item[st->size++] = item after growing
stack_push(pool) ==
    LET g == stack_grow(pool, pool.size * 2)
    IN [g EXCEPT !.size = @ + 1,
                 !.cached = IF g.size + 1 > @ THEN g.size + 1 ELSE @]

\* the buffer handed out is empty in both branches
rndr_newbuf(st, type) ==
    [st EXCEPT !.pool[type] =
        IF @.size < @.asize /\ @.size < @.cached
        THEN [@ EXCEPT !.size = @ + 1]
        ELSE stack_push(@)]

\* the buffer never given back
rndr_popbuf_forgotten(st, type) == st

rndr_popbuf(st, type) == [st EXCEPT !.pool[type].size = @ - 1]

\* the span buffers alone
Active_spans(st) == st.pool.spn.size

Active(st) == st.pool.spn.size + st.pool.blk.size

\* parse_block or parse_inline goes past its test of the nesting: chain
\* holds, for each such call that has not returned, the buffers active
\* when it was entered; deep is the longest chain so far; flat records a
\* call entered with no more buffers active than the call around it
parse_enter(st) ==
    [st EXCEPT !.chain = Append(@, Active(st)),
               !.deep = IF Len(st.chain) + 1 > @ THEN Len(st.chain) + 1 ELSE @,
               !.flat = @ \/ (st.chain # <<>>
                              /\ Active(st) <= st.chain[Len(st.chain)])]

\* the call returns
parse_leave(chain) == SubSeq(chain, 1, Len(chain) - 1)

\* a recognizer entered with state st0 returns r: were the pools restored?
Leaks(st0, r) ==
    \/ r.st.pool.spn.size # st0.pool.spn.size
    \/ r.st.pool.blk.size # st0.pool.blk.size

Bal(st0, r) == [r EXCEPT !.st.leak = @ \/ Leaks(st0, r)]

_isspace(c) == c = SP \/ c = NL

(***************************************************************************)
(* The active_char table of sd_markdown_new.                               *)
(***************************************************************************)
active_char(m, c) ==
    IF c \in {STAR, UNDERSCORE}
       /\ m.cb \cap {"emphasis", "double_emphasis", "triple_emphasis"} # {}
    THEN "EMPHASIS"
    ELSE IF c = TILDE /\ "STRIKETHROUGH" \in m.ext
       /\ m.cb \cap {"emphasis", "double_emphasis", "triple_emphasis"} # {}
    THEN "EMPHASIS"
    ELSE IF c = BACKTICK /\ "codespan" \in m.cb THEN "CODESPAN"
    ELSE IF c = NL /\ "linebreak" \in m.cb THEN "LINEBREAK"
    ELSE IF c = LBRACKET /\ m.cb \cap {"image", "link"} # {} THEN "LINK"
    ELSE IF c = LANGLE THEN "LANGLE"
    ELSE IF c = BACKSLASH THEN "ESCAPE"
    ELSE IF c = AMP THEN "ENTITY"
    ELSE IF c = COLON /\ "AUTOLINK" \in m.ext THEN "AUTOLINK_URL"
    ELSE IF c = ATSIGN /\ "AUTOLINK" \in m.ext THEN "AUTOLINK_EMAIL"
    ELSE IF c = 119 /\ "AUTOLINK" \in m.ext THEN "AUTOLINK_WWW"
    ELSE IF c = CARET /\ "SUPERSCRIPT" \in m.ext THEN "SUPERSCRIPT"
    ELSE "NONE"

ActiveBytes == {STAR, UNDERSCORE, TILDE, BACKTICK, NL, LBRACKET, LANGLE,
                BACKSLASH, AMP, COLON, ATSIGN, 119, CARET}

(***************************************************************************)
(* find_emph_char: the next emphasis byte c of data[0..n), skipping code   *)
(* spans and links.  data is d at offset p.                                *)
(***************************************************************************)
\* the first index in [a, e) holding c, or 0
FirstOf(d, p, a, e, c) ==
    IF \E j \in a..(e - 1) : By(d, p + j) = c
    THEN Min({j \in a..(e - 1) : By(d, p + j) = c})
    ELSE 0

\* if (!tmp_i && data[i] == c) tmp_i = i; over i in [a, e)
Track(tmp_i, d, p, a, e, c) ==
    IF tmp_i # 0 THEN tmp_i ELSE FirstOf(d, p, a, e, c)

\* while (i < size && bt < span_nb) { ...; i++; }: the index reached
RECURSIVE close_backticks(_, _, _, _, _, _)
close_backticks(d, p, n, i, bt, span_nb) ==
    IF i < n /\ bt < span_nb
    THEN close_backticks(d, p, n, i + 1,
                         IF By(d, p + i) = BACKTICK THEN bt + 1 ELSE 0, span_nb)
    ELSE i

RECURSIVE find_emph_from(_, _, _, _, _)

\* a code span opens at i and its opening backticks end at i1
find_emph_code(d, p, n, c, i1, i2) ==
    IF i1 >= n THEN 0
    ELSE IF i2 >= n THEN FirstOf(d, p, i1, i2, c)
    ELSE find_emph_from(d, p, n, c, i2)

\* the link target opens at i2 and closes at i3
find_emph_target(d, p, n, c, tmp1, i2, i3) ==
    IF i3 >= n THEN Track(tmp1, d, p, i2 + 1, i3, c)
    ELSE find_emph_from(d, p, n, c, i3 + 1)

\* the link text closes at i1; i2 is the first byte after the blanks
find_emph_link(d, p, n, c, tmp1, i2) ==
    IF i2 >= n THEN tmp1
    ELSE IF By(d, p + i2) \notin {LBRACKET, LPAREN}
    THEN IF tmp1 # 0 THEN tmp1 ELSE find_emph_from(d, p, n, c, i2)
    ELSE find_emph_target(d, p, n, c, tmp1, i2,
             SkipTo(d, p + i2 + 1, p + n,
                    {IF By(d, p + i2) = LBRACKET THEN RBRACKET ELSE RPAREN}) - p)

\* i is the next byte among c, '`' and '['
find_emph_at(d, p, n, c, i, i1) ==
    IF i = n THEN 0
    ELSE IF By(d, p + i) = c THEN i
    ELSE IF i # 0 /\ By(d, p + i - 1) = BACKSLASH
    THEN find_emph_from(d, p, n, c, i + 1)
    ELSE IF By(d, p + i) = BACKTICK
    THEN find_emph_code(d, p, n, c, i1, close_backticks(d, p, n, i1, 0, i1 - i))
    ELSE find_emph_link(d, p, n, c, FirstOf(d, p, i + 1, i1, c),
                        SkipIn(d, p + i1 + 1, p + n, {SP, NL}) - p)

\* i1: where the backticks opening at i end, or the ']' after a '[' at i
find_emph_skip(d, p, n, c, i) ==
    find_emph_at(d, p, n, c, i,
        IF i < n /\ By(d, p + i) = BACKTICK
        THEN SkipIn(d, p + i, p + n, {BACKTICK}) - p
        ELSE SkipTo(d, p + i + 1, p + n, {RBRACKET}) - p)

find_emph_from(d, p, n, c, i0) ==
    IF i0 >= n THEN 0
    ELSE find_emph_skip(d, p, n, c,
                        SkipTo(d, p + i0, p + n, {c, BACKTICK, LBRACKET}) - p)

find_emph_char(d, p, n, c) == find_emph_from(d, p, n, c, 1)

(***************************************************************************)
(* Inline parsing.  A recognizer is called as in the source with           *)
(* (ob, rndr, data, offset, size); data is the buffer d at offset p.  It   *)
(* returns [ob, st, ret]: the output, the parse state and the bytes        *)
(* consumed.                                                               *)
(***************************************************************************)
Ret(ob, st, ret) == [ob |-> ob, st |-> st, ret |-> ret]

ActiveSet(m) == {c \in ActiveBytes : active_char(m, c) # "NONE"}

\* the cursor after a recognizer returned ret at offset i
inline_stuck(i, ret) ==
    IF ret = 0 THEN [i |-> i, end |-> i] ELSE [i |-> i + ret, end |-> i + ret]

inline_next(i, ret) ==
    IF ret = 0 THEN [i |-> i, end |-> i + 1] ELSE [i |-> i + ret, end |-> i + ret]

RECURSIVE parse_inline(_, _, _, _, _, _)
RECURSIVE inline_loop(_, _, _, _, _, _, _, _)
RECURSIVE emph1_loop(_, _, _, _, _, _, _, _)
RECURSIVE emph2_loop(_, _, _, _, _, _, _, _)
RECURSIVE emph3_loop(_, _, _, _, _, _, _, _)
RECURSIVE parse_emph1(_, _, _, _, _, _, _)
RECURSIVE parse_emph2(_, _, _, _, _, _, _)
RECURSIVE parse_emph3(_, _, _, _, _, _, _)
RECURSIVE char_emphasis(_, _, _, _, _, _, _)
RECURSIVE char_link(_, _, _, _, _, _, _)
RECURSIVE char_superscript(_, _, _, _, _, _, _)
RECURSIVE markdown_char_ptrs(_, _, _, _, _, _, _, _)

\* if (!ret) return 0; return ret + k;
Plus(r, k) ==
    [ob |-> r.ob, st |-> r.st, ret |-> IF r.ret = 0 THEN 0 ELSE r.ret + k]

\* return len;
Took(r, len) == [ob |-> r.ob, st |-> r.st, ret |-> len]

\* return ret ? len : 0;
Consumed(r, len) ==
    [ob |-> r.ob, st |-> r.st, ret |-> IF r.ret = 0 THEN 0 ELSE len]

\* rndr_popbuf(rndr, BUFFER_SPAN); return len;
PopSpan(r, len) ==
    [ob |-> r.ob, st |-> rndr_popbuf(r.st, BUFFER_SPAN), ret |-> len]

\* rndr_popbuf(rndr, BUFFER_SPAN); return ret ? len : 0;
PopSpanIf(r, len) ==
    [ob |-> r.ob, st |-> rndr_popbuf(r.st, BUFFER_SPAN),
     ret |-> IF r.ret = 0 THEN 0 ELSE len]

\* the callback name over the parsed work buffer
CallOver(m, work, ob, name) == Call(m, work.st, ob, name, <<work.ob>>)

\* a span callback over the inline rendering of data[0..i)
SpanOver(ob, m, st, d, p, i, name, len) ==
    PopSpanIf(CallOver(m, parse_inline(<<>>, m, rndr_newbuf(st, BUFFER_SPAN),
                                       d, p, i),
                       ob, name), len)

\* len = find_emph_char(data + i, size - i, c); if (!len) return 0; i += len;
emph_len(d, p, n, c, i0) == find_emph_char(d, p + i0, n - i0, c)

emph1_at(ob, m, st, d, p, n, c, len, i) ==
    IF len = 0 \/ i >= n THEN Ret(ob, st, 0)
    ELSE IF By(d, p + i) = c /\ ~_isspace(By(d, p + i - 1))
    THEN IF "NO_INTRA_EMPHASIS" \in m.ext /\ i + 1 < n
            /\ isalnum(By(d, p + i + 1))
         THEN emph1_loop(ob, m, st, d, p, n, c, i)
         ELSE SpanOver(ob, m, st, d, p, i, "emphasis", i + 1)
    ELSE emph1_loop(ob, m, st, d, p, n, c, i)

emph1_found(ob, m, st, d, p, n, c, i0, len) ==
    emph1_at(ob, m, st, d, p, n, c, len, i0 + len)

emph1_loop(ob, m, st, d, p, n, c, i0) ==
    IF i0 >= n THEN Ret(ob, st, 0)
    ELSE emph1_found(ob, m, st, d, p, n, c, i0, emph_len(d, p, n, c, i0))

parse_emph1(ob, m, st, d, p, n, c) ==
    IF "emphasis" \notin m.cb THEN Ret(ob, st, 0)
    ELSE emph1_loop(ob, m, st, d, p, n, c,
             IF n > 1 /\ By(d, p) = c /\ By(d, p + 1) = c THEN 1 ELSE 0)

emph2_at(ob, m, st, d, p, n, c, len, i) ==
    IF len = 0 THEN Ret(ob, st, 0)
    ELSE IF i + 1 < n /\ By(d, p + i) = c /\ By(d, p + i + 1) = c
            /\ i # 0 /\ ~_isspace(By(d, p + i - 1))
    THEN SpanOver(ob, m, st, d, p, i,
             IF c = TILDE THEN "strikethrough" ELSE "double_emphasis", i + 2)
    ELSE emph2_loop(ob, m, st, d, p, n, c, i + 1)

emph2_found(ob, m, st, d, p, n, c, i0, len) ==
    emph2_at(ob, m, st, d, p, n, c, len, i0 + len)

emph2_loop(ob, m, st, d, p, n, c, i0) ==
    IF i0 >= n THEN Ret(ob, st, 0)
    ELSE emph2_found(ob, m, st, d, p, n, c, i0, emph_len(d, p, n, c, i0))

parse_emph2(ob, m, st, d, p, n, c) ==
    IF (IF c = TILDE THEN "strikethrough" ELSE "double_emphasis") \notin m.cb
    THEN Ret(ob, st, 0)
    ELSE emph2_loop(ob, m, st, d, p, n, c, 0)

emph3_at(ob, m, st, d, p, n, c, len, i) ==
    IF len = 0 THEN Ret(ob, st, 0)
    ELSE IF By(d, p + i) # c \/ _isspace(By(d, p + i - 1))
    THEN emph3_loop(ob, m, st, d, p, n, c, i)
    ELSE IF i + 2 < n /\ By(d, p + i + 1) = c /\ By(d, p + i + 2) = c
            /\ "triple_emphasis" \in m.cb
    THEN SpanOver(ob, m, st, d, p, i, "triple_emphasis", i + 3)
    ELSE IF i + 1 < n /\ By(d, p + i + 1) = c
    THEN Plus(parse_emph1(ob, m, st, d, p - 2, n + 2, c), -2)
    ELSE Plus(parse_emph2(ob, m, st, d, p - 1, n + 1, c), -1)

emph3_found(ob, m, st, d, p, n, c, i0, len) ==
    emph3_at(ob, m, st, d, p, n, c, len, i0 + len)

emph3_loop(ob, m, st, d, p, n, c, i0) ==
    IF i0 >= n THEN Ret(ob, st, 0)
    ELSE emph3_found(ob, m, st, d, p, n, c, i0, emph_len(d, p, n, c, i0))

parse_emph3(ob, m, st, d, p, n, c) == emph3_loop(ob, m, st, d, p, n, c, 0)

emphasis_of(ob, m, st, d, p, n, c) ==
    IF n > 2 /\ By(d, p + 1) # c
    THEN IF c = TILDE \/ _isspace(By(d, p + 1)) THEN Ret(ob, st, 0)
         ELSE Plus(parse_emph1(ob, m, st, d, p + 1, n - 1, c), 1)
    ELSE IF n > 3 /\ By(d, p + 1) = c /\ By(d, p + 2) # c
    THEN IF _isspace(By(d, p + 2)) THEN Ret(ob, st, 0)
         ELSE Plus(parse_emph2(ob, m, st, d, p + 2, n - 2, c), 2)
    ELSE IF n > 4 /\ By(d, p + 1) = c /\ By(d, p + 2) = c /\ By(d, p + 3) # c
    THEN IF c = TILDE \/ _isspace(By(d, p + 3)) THEN Ret(ob, st, 0)
         ELSE Plus(parse_emph3(ob, m, st, d, p + 3, n - 3, c), 3)
    ELSE Ret(ob, st, 0)

char_emphasis(ob, m, st, d, p, offset, n) ==
    IF "NO_INTRA_EMPHASIS" \in m.ext /\ offset > 0
       /\ ~_isspace(By(d, p - 1)) /\ By(d, p - 1) # RANGLE
    THEN Ret(ob, st, 0)
    ELSE emphasis_of(ob, m, st, d, p, n, By(d, p))

\* while (ob->size && ob->data[ob->size - 1] == ' ') ob->size--;
RECURSIVE trim_spaces(_)
trim_spaces(ob) ==
    IF Len(ob) > 0 /\ ob[Len(ob)] = SP
    THEN trim_spaces(SubSeq(ob, 1, Len(ob) - 1))
    ELSE ob

char_linebreak(ob, m, st, d, p, offset, n) ==
    IF offset < 2 \/ By(d, p - 1) # SP \/ By(d, p - 2) # SP
    THEN Ret(ob, st, 0)
    ELSE Call(m, st, trim_spaces(ob), "linebreak", <<>>)

\* for (end = nb; end < size && i < nb; end++): [end, i] at the exit
RECURSIVE codespan_close(_, _, _, _, _, _)
codespan_close(d, p, n, nb, end, i) ==
    IF end < n /\ i < nb
    THEN codespan_close(d, p, n, nb, end + 1,
                        IF By(d, p + end) = BACKTICK THEN i + 1 ELSE 0)
    ELSE [end |-> end, i |-> i]

\* while (f_end > nb && data[f_end - 1] == ' ') f_end--;
RECURSIVE trim_back(_, _, _, _, _)
trim_back(d, p, low, f_end, S) ==
    IF f_end > low /\ By(d, p + f_end - 1) \in S
    THEN trim_back(d, p, low, f_end - 1, S)
    ELSE f_end

\* the span data[f_begin..f_end) without its blanks, or an empty buffer
codespan_work(d, p, f_begin, f_end) ==
    IF f_begin < f_end THEN Sub(d, p + f_begin, p + f_end) ELSE <<>>

codespan_at(ob, m, st, d, p, n, nb, cl) ==
    IF cl.i < nb /\ cl.end >= n THEN Ret(ob, st, 0)
    ELSE Consumed(Call(m, st, ob, "codespan",
                       <<codespan_work(d, p,
                             SkipIn(d, p + nb, p + cl.end, {SP}) - p,
                             trim_back(d, p, nb, cl.end - nb, {SP}))>>),
                  cl.end)

codespan_open(ob, m, st, d, p, n, nb) ==
    codespan_at(ob, m, st, d, p, n, nb, codespan_close(d, p, n, nb, nb, 0))

char_codespan(ob, m, st, d, p, offset, n) ==
    codespan_open(ob, m, st, d, p, n, SkipIn(d, p, p + n, {BACKTICK}) - p)

Alnum == {c \in 0..255 : isalnum(c)}

escape_chars == {BACKSLASH, BACKTICK, STAR, UNDERSCORE, LBRACE, RBRACE,
                 LBRACKET, RBRACKET, LPAREN, RPAREN, HASH, PLUS, DASH, DOT,
                 BANG, COLON, PIPE, AMP, LANGLE, RANGLE, CARET, TILDE, 0}

\* normal_text when set, else a raw copy
\* the text skipped when there is no normal_text callback
Text_skipped(ob, m, st, txt) ==
    IF "normal_text" \in m.cb
    THEN Call(m, st, ob, "normal_text", <<txt>>)
    ELSE Ret(ob, st, 1)

Text(ob, m, st, txt) ==
    IF "normal_text" \in m.cb
    THEN Call(m, st, ob, "normal_text", <<txt>>)
    ELSE Ret(ob \o txt, st, 1)

char_escape(ob, m, st, d, p, offset, n) ==
    IF n > 1
    THEN IF By(d, p + 1) \notin escape_chars THEN Ret(ob, st, 0)
         ELSE Took(Text(ob, m, st, <<By(d, p + 1)>>), 2)
    ELSE IF n = 1 THEN Ret(Append(ob, By(d, p)), st, 2)
    ELSE Ret(ob, st, 2)

entity_at(ob, m, st, d, p, n, e2) ==
    IF e2 < n /\ By(d, p + e2) = SEMI
    THEN IF "entity" \in m.cb
         THEN Took(Call(m, st, ob, "entity", <<Sub(d, p, p + e2 + 1)>>), e2 + 1)
         ELSE Ret(ob \o Sub(d, p, p + e2 + 1), st, e2 + 1)
    ELSE Ret(ob, st, 0)

char_entity(ob, m, st, d, p, offset, n) ==
    entity_at(ob, m, st, d, p, n,
        SkipIn(d, p + (IF 1 < n /\ By(d, p + 1) = HASH THEN 2 ELSE 1),
               p + n, Alnum) - p)

\* a NULL struct sd_buf * handed to a callback
NULLBUF == <<253>>

OrNull(buf) == IF buf = <<>> THEN NULLBUF ELSE buf

RECURSIVE unscape_from(_, _)
unscape_from(src, i0) ==
    IF i0 >= Len(src) THEN <<>>
    ELSE LET i == SkipTo(src, i0, Len(src), {BACKSLASH})
         IN Sub(src, i0, i)
            \o (IF i + 1 >= Len(src) THEN <<>>
                ELSE <<By(src, i + 1)>> \o unscape_from(src, i + 2))

unscape_text(src) == unscape_from(src, 0)

MKDA_NOT_AUTOLINK == 0
MKDA_NORMAL == 1
MKDA_EMAIL == 2

is_mail_autolink(d, p, n) ==
    LET i == SkipIn(d, p, p + n, Alnum \cup {ATSIGN, DASH, DOT, UNDERSCORE}) - p
        nb == Cardinality({j \in 0..(i - 1) : By(d, p + j) = ATSIGN})
    IN IF i < n /\ By(d, p + i) = RANGLE /\ nb = 1 THEN i + 1 ELSE 0

\* while (i < size) { '\\' skips two; > ' " space newline stop; else i++ }
RECURSIVE tag_uri_end(_, _, _, _)
tag_uri_end(d, p, n, i) ==
    IF i >= n THEN i
    ELSE IF By(d, p + i) = BACKSLASH THEN tag_uri_end(d, p, n, i + 2)
    ELSE IF By(d, p + i) \in {RANGLE, SQUOTE, DQUOTE, SP, NL} THEN i
    ELSE tag_uri_end(d, p, n, i + 1)

NoTag == [len |-> 0, autolink |-> MKDA_NOT_AUTOLINK]

\* while (i < size && data[i] != '>') i++; if (i >= size) return 0;
tag_close(d, p, n, i) ==
    IF i >= n THEN NoTag ELSE [len |-> i + 1, autolink |-> MKDA_NOT_AUTOLINK]

\* a scheme ended at the ':' before i; j is where the URI ends
tag_uri(d, p, n, i, j) ==
    IF i >= n THEN tag_close(d, p, n, i)
    ELSE IF j >= n THEN NoTag
    ELSE IF j > i /\ By(d, p + j) = RANGLE
    THEN [len |-> j + 1, autolink |-> MKDA_NORMAL]
    ELSE tag_close(d, p, n, SkipTo(d, p + j, p + n, {RANGLE}) - p)

\* the tag name or scheme ends at i
tag_scheme(d, p, n, i, mail) ==
    IF i >= n THEN NoTag
    ELSE IF mail # 0 THEN [len |-> i + mail, autolink |-> MKDA_EMAIL]
    ELSE IF i > 2 /\ By(d, p + i) = COLON
    THEN tag_uri(d, p, n, i + 1, tag_uri_end(d, p, n, i + 1))
    ELSE tag_close(d, p, n, SkipTo(d, p + i, p + n, {RANGLE}) - p)

tag_name(d, p, n, i) ==
    tag_scheme(d, p, n, i,
        IF i < n /\ i > 1 /\ By(d, p + i) = ATSIGN
        THEN is_mail_autolink(d, p + i, n - i) ELSE 0)

\* data[i] is read at i = size too; every path from there returns 0
tag_length(d, p, n) ==
    IF n < 3 \/ By(d, p) # LANGLE
       \/ ~isalnum(By(d, p + (IF By(d, p + 1) = SLASH THEN 2 ELSE 1)))
    THEN NoTag
    ELSE tag_name(d, p, n,
             SkipIn(d, p + (IF By(d, p + 1) = SLASH THEN 2 ELSE 1), p + n,
                    Alnum \cup {DOT, PLUS, DASH}) - p)

langle_tag(ob, m, st, d, p, t) ==
    IF t.len > 2
    THEN IF "autolink" \in m.cb /\ t.autolink # MKDA_NOT_AUTOLINK
         THEN PopSpanIf(Call(m, rndr_newbuf(st, BUFFER_SPAN), ob, "autolink",
                             <<unscape_text(Sub(d, p + 1, p + t.len - 1)),
                               IntArg(t.autolink)>>),
                        t.len)
         ELSE IF "raw_html_tag" \in m.cb
         THEN Consumed(Call(m, st, ob, "raw_html_tag", <<Sub(d, p, p + t.len)>>),
                       t.len)
         ELSE Ret(ob, st, 0)
    ELSE Ret(ob, st, 0)

char_langle_tag(ob, m, st, d, p, offset, n) ==
    langle_tag(ob, m, st, d, p, tag_length(d, p, n))

(***************************************************************************)
(* Autolink recognition (sd_autolink__www, __email, __url).                *)
(***************************************************************************)
CSpace == {TAB, NL, 11, 12, CR, SP}
CPunct == (33..47) \cup (58..64) \cup (91..96) \cup (123..126)
Alpha == {c \in 0..255 : isalpha(c)}

RECURSIVE delim_trim(_, _, _)
delim_trim(d, p, link_end) ==
    IF link_end = 0 THEN 0
    ELSE IF By(d, p + link_end - 1) \in {QMARK, BANG, DOT, COMMA, 0}
    THEN delim_trim(d, p, link_end - 1)
    ELSE IF By(d, p + link_end - 1) = SEMI /\ link_end >= 2
    THEN LET new_end == trim_back(d, p, 1, link_end - 1, Alpha) - 1
         IN IF new_end < link_end - 2 /\ By(d, p + new_end) = AMP
            THEN delim_trim(d, p, new_end)
            ELSE delim_trim(d, p, link_end - 1)
    ELSE link_end

\* the opening byte that pairs with a closing byte, or 0
delim_open(cclose) ==
    IF cclose = DQUOTE THEN DQUOTE
    ELSE IF cclose = SQUOTE THEN SQUOTE
    ELSE IF cclose = RPAREN THEN LPAREN
    ELSE IF cclose = RBRACKET THEN LBRACKET
    ELSE IF cclose = RBRACE THEN LBRACE
    ELSE 0

\* if (closing != opening) link_end--;
delim_pair(d, p, link_end, cclose, copen) ==
    IF copen # 0
       /\ Cardinality({j \in 0..(link_end - 1) :
                          By(d, p + j) # copen /\ By(d, p + j) = cclose})
          # Cardinality({j \in 0..(link_end - 1) : By(d, p + j) = copen})
    THEN link_end - 1
    ELSE link_end

delim_close(d, p, link_end) ==
    IF link_end = 0 THEN 0
    ELSE delim_pair(d, p, link_end, By(d, p + link_end - 1),
                    delim_open(By(d, p + link_end - 1)))

autolink_delim(d, p, link_end0, max_rewind, n) ==
    delim_close(d, p, delim_trim(d, p, SkipTo(d, p, p + link_end0, {LANGLE}) - p))

check_domain(d, p, n, allow_short) ==
    LET i == SkipIn(d, p + 1, p + n - 1, Alnum \cup {DOT, DASH}) - p
        np == Cardinality({j \in 1..(i - 1) : By(d, p + j) = DOT})
    IN IF ~isalnum(By(d, p)) THEN 0
       ELSE IF allow_short THEN i
       ELSE IF np # 0 THEN i ELSE 0

NoLink == [len |-> 0, link |-> <<>>, rewind |-> 0]

\* link->data is data - rewind .. data + link_end
LinkOf(d, p, rewind, link_end) ==
    IF link_end = 0 THEN NoLink
    ELSE [len |-> link_end, link |-> Sub(d, p - rewind, p + link_end),
          rewind |-> rewind]

www_domain(d, p, max_rewind, n, link_end) ==
    IF link_end = 0 THEN NoLink
    ELSE LinkOf(d, p, 0,
             autolink_delim(d, p, SkipTo(d, p + link_end, p + n, CSpace) - p,
                            max_rewind, n))

sd_autolink__www(d, p, max_rewind, n) ==
    IF max_rewind > 0 /\ By(d, p - 1) \notin CPunct \cup CSpace THEN NoLink
    ELSE IF n < 4 \/ Sub(d, p, p + 4) # <<119, 119, 119, DOT>> THEN NoLink
    ELSE www_domain(d, p, max_rewind, n, check_domain(d, p, n, FALSE))

\* for (link_end = 0; link_end < size; ++link_end): [link_end, nb, np]
RECURSIVE email_scan(_, _, _, _, _, _)
email_scan(d, p, n, link_end, nb, np) ==
    IF link_end >= n THEN [end |-> link_end, nb |-> nb, np |-> np]
    ELSE LET c == By(d, p + link_end)
         IN IF isalnum(c) THEN email_scan(d, p, n, link_end + 1, nb, np)
            ELSE IF c = ATSIGN THEN email_scan(d, p, n, link_end + 1, nb + 1, np)
            ELSE IF c = DOT /\ link_end < n - 1
            THEN email_scan(d, p, n, link_end + 1, nb, np + 1)
            ELSE IF c # DASH /\ c # UNDERSCORE
            THEN [end |-> link_end, nb |-> nb, np |-> np]
            ELSE email_scan(d, p, n, link_end + 1, nb, np)

\* the bytes of S that end at data[-1], at most max_rewind of them
RewindOver(d, p, max_rewind, S) == p - trim_back(d, 0, p - max_rewind, p, S)

email_at(d, p, max_rewind, n, rewind, sc) ==
    IF rewind = 0 THEN NoLink
    ELSE IF sc.end < 2 \/ sc.nb # 1 \/ sc.np = 0
            \/ ~isalpha(By(d, p + sc.end - 1)) THEN NoLink
    ELSE LinkOf(d, p, rewind, autolink_delim(d, p, sc.end, max_rewind, n))

sd_autolink__email(d, p, max_rewind, n) ==
    email_at(d, p, max_rewind, n,
             RewindOver(d, p, max_rewind,
                        Alnum \cup {DOT, PLUS, DASH, UNDERSCORE, 0}),
             email_scan(d, p, n, 0, 0, 0))

\* strncasecmp(link, uri, len) == 0 with link_len > len and isalnum(link[len])
SafePrefix(link, uri) ==
    /\ Len(link) > Len(uri)
    /\ \A k \in 1..Len(uri) : tolower(link[k]) = uri[k]
    /\ isalnum(link[Len(uri) + 1])

valid_uris == {<<SLASH>>,
               <<104, 116, 116, 112, COLON, SLASH, SLASH>>,
               <<104, 116, 116, 112, 115, COLON, SLASH, SLASH>>,
               <<102, 116, 112, COLON, SLASH, SLASH>>,
               <<109, 97, 105, 108, 116, 111, COLON>>}

sd_autolink_issafe(link) == \E uri \in valid_uris : SafePrefix(link, uri)

url_at(d, p, max_rewind, n, rewind, domain_len) ==
    IF ~sd_autolink_issafe(Sub(d, p - rewind, p + n)) THEN NoLink
    ELSE IF domain_len = 0 THEN NoLink
    ELSE LinkOf(d, p, rewind,
             autolink_delim(d, p,
                 SkipTo(d, p + 3 + domain_len, p + n, CSpace) - p,
                 max_rewind, n))

sd_autolink__url(d, p, max_rewind, n) ==
    IF n < 4 \/ By(d, p + 1) # SLASH \/ By(d, p + 2) # SLASH THEN NoLink
    ELSE url_at(d, p, max_rewind, n, RewindOver(d, p, max_rewind, Alpha),
                check_domain(d, p + 3, n - 3, FALSE))

\* ob->size -= rewind
Rewound(ob, rewind) == SubSeq(ob, 1, Len(ob) - rewind)

\* the link callback over link_text, which normal_text has rendered into t
www_text(ob, m, a, link_url, t) ==
    PopSpan(Call(m, t.st, Rewound(ob, a.rewind), "link",
                 <<link_url, NULLBUF, t.ob>>), a.len)

www_render(ob, m, st, a, link_url) ==
    IF "normal_text" \in m.cb
    THEN www_text(ob, m, a, link_url,
                  Call(m, rndr_newbuf(st, BUFFER_SPAN), <<>>, "normal_text",
                       <<a.link>>))
    ELSE Call(m, st, Rewound(ob, a.rewind), "link", <<link_url, NULLBUF, a.link>>)

www_link(ob, m, st, a) ==
    IF a.len > 0
    THEN PopSpan(PopSpan(www_render(ob, m, rndr_newbuf(st, BUFFER_SPAN), a,
                             <<104, 116, 116, 112, COLON, SLASH, SLASH>> \o a.link),
                         a.len), a.len)
    ELSE Ret(ob, rndr_popbuf(st, BUFFER_SPAN), 0)

char_autolink_www(ob, m, st, d, p, offset, n) ==
    IF "link" \in m.cb /\ st.in_link_body = 0
    THEN www_link(ob, m, rndr_newbuf(st, BUFFER_SPAN),
                  sd_autolink__www(d, p, offset, n))
    ELSE Ret(ob, st, 0)

AutolinkWith(ob, m, st, a, type) ==
    IF a.len > 0
    THEN PopSpan(Call(m, rndr_newbuf(st, BUFFER_SPAN), Rewound(ob, a.rewind),
                      "autolink", <<a.link, IntArg(type)>>), a.len)
    ELSE Ret(ob, rndr_popbuf(rndr_newbuf(st, BUFFER_SPAN), BUFFER_SPAN), 0)

char_autolink_email(ob, m, st, d, p, offset, n) ==
    IF "autolink" \notin m.cb \/ st.in_link_body # 0 THEN Ret(ob, st, 0)
    ELSE AutolinkWith(ob, m, st, sd_autolink__email(d, p, offset, n), MKDA_EMAIL)

char_autolink_url(ob, m, st, d, p, offset, n) ==
    IF "autolink" \notin m.cb \/ st.in_link_body # 0 THEN Ret(ob, st, 0)
    ELSE AutolinkWith(ob, m, st, sd_autolink__url(d, p, offset, n), MKDA_NORMAL)

(***************************************************************************)
(* char_link: '[' starts a link or, after '!', an image.                   *)
(***************************************************************************)
\* for (level = 1; i < size; i++): the index of the closing bracket
RECURSIVE link_close(_, _, _, _, _, _)
link_close(d, p, n, i, level, text_has_nl) ==
    IF i >= n THEN [i |-> i, text_has_nl |-> text_has_nl]
    ELSE IF By(d, p + i) = NL THEN link_close(d, p, n, i + 1, level, TRUE)
    ELSE IF By(d, p + i - 1) = BACKSLASH
    THEN link_close(d, p, n, i + 1, level, text_has_nl)
    ELSE IF By(d, p + i) = LBRACKET
    THEN link_close(d, p, n, i + 1, level + 1, text_has_nl)
    ELSE IF By(d, p + i) = RBRACKET
    THEN IF level - 1 <= 0 THEN [i |-> i, text_has_nl |-> text_has_nl]
         ELSE link_close(d, p, n, i + 1, level - 1, text_has_nl)
    ELSE link_close(d, p, n, i + 1, level, text_has_nl)

\* looking for link end: ' " )
RECURSIVE link_end_scan(_, _, _, _)
link_end_scan(d, p, n, i) ==
    IF i >= n THEN i
    ELSE IF By(d, p + i) = BACKSLASH THEN link_end_scan(d, p, n, i + 2)
    ELSE IF By(d, p + i) = RPAREN THEN i
    ELSE IF i >= 1 /\ _isspace(By(d, p + i - 1))
            /\ By(d, p + i) \in {SQUOTE, DQUOTE} THEN i
    ELSE link_end_scan(d, p, n, i + 1)

\* looking for title end
RECURSIVE title_end_scan(_, _, _, _, _, _)
title_end_scan(d, p, n, i, qtype, in_title) ==
    IF i >= n THEN i
    ELSE IF By(d, p + i) = BACKSLASH
    THEN title_end_scan(d, p, n, i + 2, qtype, in_title)
    ELSE IF By(d, p + i) = qtype
    THEN title_end_scan(d, p, n, i + 1, qtype, FALSE)
    ELSE IF By(d, p + i) = RPAREN /\ ~in_title THEN i
    ELSE title_end_scan(d, p, n, i + 1, qtype, in_title)

\* the id of a link text holding newlines
RECURSIVE craft_id(_, _, _, _)
craft_id(d, p, j, txt_e) ==
    IF j >= txt_e THEN <<>>
    ELSE (IF By(d, p + j) # NL THEN <<By(d, p + j)>>
          ELSE IF By(d, p + j - 1) # SP THEN <<SP>> ELSE <<>>)
         \o craft_id(d, p, j + 1, txt_e)

NoTarget == [ok |-> FALSE, i |-> 0, has_link |-> FALSE, link |-> <<>>,
             title |-> <<>>, bufs |-> 0]

\* the link is data[link_b0..link_e0), the title data[title_b..title_e)
link_target(d, p, i, link_b0, link_e0, title_b, title_e) ==
    LET link_b == IF By(d, p + link_b0) = LANGLE THEN link_b0 + 1 ELSE link_b0
        link_e == IF By(d, p + link_e0 - 1) = RANGLE THEN link_e0 - 1 ELSE link_e0
    IN [ok |-> TRUE, i |-> i + 1,
        has_link |-> link_e > link_b,
        link |-> IF link_e > link_b THEN Sub(d, p + link_b, p + link_e) ELSE <<>>,
        title |-> IF title_e > title_b THEN Sub(d, p + title_b, p + title_e)
                  ELSE <<>>,
        bufs |-> (IF link_e > link_b THEN 1 ELSE 0)
                 + (IF title_e > title_b THEN 1 ELSE 0)]

\* a title opened at the quote data[i1] and the scan for its end stopped at i
link_title_close(d, p, n, link_b, i1, i) ==
    LET title_e == trim_back(d, p + 1, i1 + 1, i - 1, {SP, NL})
    IN IF i >= n THEN NoTarget
       ELSE IF By(d, p + title_e) \in {SQUOTE, DQUOTE}
       THEN link_target(d, p, i, link_b, trim_back(d, p, link_b, i1, {SP, NL}),
                        i1 + 1, title_e)
       ELSE link_target(d, p, i, link_b, trim_back(d, p, link_b, i, {SP, NL}),
                        0, 0)

\* the scan for the link end stopped at i1
link_title(d, p, n, link_b, i1) ==
    IF i1 >= n THEN NoTarget
    ELSE IF By(d, p + i1) \in {SQUOTE, DQUOTE}
    THEN link_title_close(d, p, n, link_b, i1,
             title_end_scan(d, p, n, i1 + 1, By(d, p + i1), TRUE))
    ELSE link_target(d, p, i1, link_b, trim_back(d, p, link_b, i1, {SP, NL}),
                     0, 0)

\* inline style link: data[i0] is the opening parenthesis
link_inline(d, p, n, i0) ==
    LET link_b == SkipIn(d, p + i0 + 1, p + n, {SP, NL}) - p
    IN link_title(d, p, n, link_b, link_end_scan(d, p, n, link_b))

\* the target held by the link_ref lr, with bufs work buffers taken
link_ref_target(lr, i, bufs) ==
    IF lr = NullRef THEN [NoTarget EXCEPT !.bufs = bufs]
    ELSE [ok |-> TRUE, i |-> i, has_link |-> TRUE, link |-> lr.link,
          title |-> lr.title, bufs |-> bufs]

\* the link_ref of id, crafted from the link text when id is empty
link_by_ref(m, d, p, txt_e, text_has_nl, id_b, id_e, i) ==
    link_ref_target(find_link_ref(m.refs,
                        IF id_b # id_e THEN Sub(d, p + id_b, p + id_e)
                        ELSE IF text_has_nl THEN craft_id(d, p, 1, txt_e)
                        ELSE Sub(d, p + 1, p + txt_e)),
                    i, IF id_b = id_e /\ text_has_nl THEN 1 ELSE 0)

RECURSIVE newbufs(_, _, _)
newbufs(st, type, k) ==
    IF k = 0 THEN st ELSE newbufs(rndr_newbuf(st, type), type, k - 1)

\* cleanup: rndr->work_bufs[BUFFER_SPAN].size = (int)org_work_size
link_cleanup(st, org_work_size) == [st EXCEPT !.pool.spn.size = org_work_size]

\* cleanup: the work buffers are dropped; return ret ? i : 0;
link_done(r, org_work_size, i) ==
    [ob |-> r.ob, st |-> link_cleanup(r.st, org_work_size),
     ret |-> IF r.ret # 0 THEN i ELSE 0]

\* the callback of a link or image with target tg and content c
link_render(ob, m, c, is_img, tg, org_work_size) ==
    link_done(Call(m, IF tg.has_link THEN rndr_newbuf(c.st, BUFFER_SPAN) ELSE c.st,
                   IF is_img /\ Len(ob) > 0 /\ ob[Len(ob)] = BANG
                   THEN SubSeq(ob, 1, Len(ob) - 1) ELSE ob,
                   IF is_img THEN "image" ELSE "link",
                   <<IF tg.has_link THEN unscape_text(tg.link) ELSE NULLBUF,
                     OrNull(tg.title), c.ob>>),
              org_work_size, tg.i)

\* rndr->in_link_body = 0 after the link text was parsed
link_body(body) == [ob |-> body.ob, st |-> [body.st EXCEPT !.in_link_body = 0]]

\* building content: img alt is escaped, link content is parsed
link_content(ob, m, st, d, p, is_img, txt_e, tg) ==
    LET st1 == newbufs(st, BUFFER_SPAN, tg.bufs)
    IN IF ~tg.ok THEN Ret(ob, link_cleanup(st1, st.pool.spn.size), 0)
       ELSE IF txt_e <= 1
       THEN link_render(ob, m, [ob |-> NULLBUF, st |-> st1], is_img, tg,
                        st.pool.spn.size)
       ELSE IF is_img
       THEN link_render(ob, m, [ob |-> Sub(d, p + 1, p + txt_e),
                                st |-> rndr_newbuf(st1, BUFFER_SPAN)],
                        is_img, tg, st.pool.spn.size)
       ELSE link_render(ob, m,
                link_body(parse_inline(<<>>, m,
                              [rndr_newbuf(st1, BUFFER_SPAN)
                                  EXCEPT !.in_link_body = 1],
                              d, p + 1, txt_e - 1)),
                is_img, tg, st.pool.spn.size)

\* data[i0] is the first byte after the link text and the blanks behind it
link_after(ob, m, st, d, p, n, is_img, cl, i0) ==
    LET id_e == SkipTo(d, p + i0 + 1, p + n, {RBRACKET}) - p
    IN link_content(ob, m, st, d, p, is_img, cl.i,
           IF i0 < n /\ By(d, p + i0) = LPAREN THEN link_inline(d, p, n, i0)
           ELSE IF i0 < n /\ By(d, p + i0) = LBRACKET
           THEN IF id_e >= n THEN NoTarget
                ELSE link_by_ref(m, d, p, cl.i, cl.text_has_nl,
                                 i0 + 1, id_e, id_e + 1)
           ELSE link_by_ref(m, d, p, cl.i, cl.text_has_nl, 0, 0, cl.i + 1))

\* cl.i is the closing bracket of the link text
link_text(ob, m, st, d, p, n, is_img, cl) ==
    IF cl.i >= n THEN Ret(ob, st, 0)
    ELSE link_after(ob, m, st, d, p, n, is_img, cl,
                    SkipIn(d, p + cl.i + 1, p + n, {SP, NL}) - p)

char_link(ob, m, st, d, p, offset, n) ==
    LET is_img == offset # 0 /\ By(d, p - 1) = BANG
    IN IF (is_img /\ "image" \notin m.cb) \/ (~is_img /\ "link" \notin m.cb)
       THEN Ret(ob, st, 0)
       ELSE link_text(ob, m, st, d, p, n, is_img,
                      link_close(d, p, n, 1, 1, FALSE))

\* while (sup_len < size && data[sup_len] != ')' && data[sup_len - 1] != '\\')
RECURSIVE sup_paren_end(_, _, _, _)
sup_paren_end(d, p, n, sup_len) ==
    IF sup_len < n /\ By(d, p + sup_len) # RPAREN
       /\ By(d, p + sup_len - 1) # BACKSLASH
    THEN sup_paren_end(d, p, n, sup_len + 1)
    ELSE sup_len

char_superscript(ob, m, st, d, p, offset, n) ==
    IF "superscript" \notin m.cb \/ n < 2 THEN Ret(ob, st, 0)
    ELSE
    LET paren == By(d, p + 1) = LPAREN
        sup_start == IF paren THEN 2 ELSE 1
        sup_len == IF paren THEN sup_paren_end(d, p, n, 2)
                   ELSE SkipTo(d, p + 1, p + n, {SP, NL}) - p
    IN IF paren /\ sup_len = n THEN Ret(ob, st, 0)
       ELSE IF sup_len - sup_start = 0
       THEN Ret(ob, st, IF sup_start = 2 THEN 3 ELSE 0)
       ELSE PopSpan(CallOver(m, parse_inline(<<>>, m,
                                     rndr_newbuf(st, BUFFER_SPAN), d,
                                     p + sup_start, sup_len - sup_start),
                             ob, "superscript"),
                    IF sup_start = 2 THEN sup_len + 1 ELSE sup_len)

markdown_char_ptrs(action, ob, m, st, d, p, offset, n) ==
       CASE action = "EMPHASIS" -> char_emphasis(ob, m, st, d, p, offset, n)
         [] action = "CODESPAN" -> char_codespan(ob, m, st, d, p, offset, n)
         [] action = "LINEBREAK" -> char_linebreak(ob, m, st, d, p, offset, n)
         [] action = "LINK" -> char_link(ob, m, st, d, p, offset, n)
         [] action = "LANGLE" -> char_langle_tag(ob, m, st, d, p, offset, n)
         [] action = "ESCAPE" -> char_escape(ob, m, st, d, p, offset, n)
         [] action = "ENTITY" -> char_entity(ob, m, st, d, p, offset, n)
         [] action = "AUTOLINK_URL" -> char_autolink_url(ob, m, st, d, p, offset, n)
         [] action = "AUTOLINK_EMAIL" -> char_autolink_email(ob, m, st, d, p, offset, n)
         [] action = "AUTOLINK_WWW" -> char_autolink_www(ob, m, st, d, p, offset, n)
         [] action = "SUPERSCRIPT" -> char_superscript(ob, m, st, d, p, offset, n)

\* the loop goes on at the cursor nx, that has to be past end
inline_on(r, m, d, p, n, end, nx) ==
    IF nx.end <= end
    THEN [ob |-> r.ob, st |-> [r.st EXCEPT !.stall = TRUE]]
    ELSE inline_loop(r.ob, m, r.st, d, p, n, nx.i, nx.end)

\* the recognizer of data[end] returned r:
\* if (!end) end = i + 1; else { i += end; end = i; }
inline_step(st, r, m, d, p, n, end) ==
    IF r.ret = 0
    THEN inline_on(Bal(st, r), m, d, p, n, end, inline_next(end, 0))
    ELSE inline_on(Bal(st, r), m, d, p, n, end, inline_next(end, r.ret))

\* the inactive chars before data[end] were copied into t.ob
inline_char(t, m, d, p, n, end) ==
    IF end >= n THEN [ob |-> t.ob, st |-> t.st]
    ELSE inline_step(t.st,
                     markdown_char_ptrs(active_char(m, By(d, p + end)),
                                        t.ob, m, t.st, d, p + end, end, n - end),
                     m, d, p, n, end)

inline_text(ob, m, st, d, p, n, i, end) ==
    inline_char(Text(ob, m, st, Sub(d, p + i, p + end)), m, d, p, n, end)

inline_loop(ob, m, st, d, p, n, i, end0) ==
    IF i >= n THEN [ob |-> ob, st |-> st]
    ELSE inline_text(ob, m, st, d, p, n, i,
                     SkipTo(d, p + end0, p + n, ActiveSet(m)) - p)

parse_inline(ob, m, st, d, p, n) ==
    IF Active(st) > m.max_nesting THEN [ob |-> ob, st |-> st]
    ELSE [inline_loop(ob, m, parse_enter(st), d, p, n, 0, 0)
            EXCEPT !.st.chain = parse_leave(@)]

(***************************************************************************)
(* Block-level predicates.                                                 *)
(***************************************************************************)
\* the line length when the line is empty, 0 otherwise
is_empty(d, p, n) ==
    LET i == SkipIn(d, p, p + n, {SP}) - p
    IN IF i < n /\ By(d, p + i) # NL THEN 0 ELSE i + 1

\* up to three leading spaces, as the nested ifs of is_hrule read them
indent3(d, p) ==
    IF By(d, p) # SP THEN 0
    ELSE IF By(d, p + 1) # SP THEN 1
    ELSE IF By(d, p + 2) # SP THEN 2
    ELSE 3

\* data[i] follows the leading spaces
hrule_at(d, p, n, i) ==
    LET c == By(d, p + i)
        eol == SkipTo(d, p + i, p + n, {NL}) - p
    IN IF i + 2 >= n \/ c \notin {STAR, DASH, UNDERSCORE} THEN FALSE
       ELSE IF \E j \in i..(eol - 1) : By(d, p + j) \notin {c, SP} THEN FALSE
       ELSE Cardinality({j \in i..(eol - 1) : By(d, p + j) = c}) >= 3

is_hrule(d, p, n) == IF n < 3 THEN FALSE ELSE hrule_at(d, p, n, indent3(d, p))

codefence_at(d, p, n, i) ==
    LET e == SkipIn(d, p + i, p + n, {By(d, p + i)}) - p
    IN IF i + 2 >= n \/ By(d, p + i) \notin {TILDE, BACKTICK} THEN 0
       ELSE IF e - i < 3 THEN 0
       ELSE e

prefix_codefence(d, p, n) ==
    IF n < 3 THEN 0 ELSE codefence_at(d, p, n, indent3(d, p))

\* strip whitespace at both ends of data[a..b)
TrimBoth(d, p, a, b) ==
    LET a1 == SkipIn(d, p + a, p + b, {SP, NL}) - p
        b1 == trim_back(d, p, a1, b, {SP, NL})
    IN Sub(d, p + a1, p + b1)

NoFence == [len |-> 0, syntax |-> <<>>]

\* the rest of the fence line, from data[i], holds blanks only
fence_rest(d, p, n, i, syntax) ==
    LET eol == SkipTo(d, p + i, p + n, {NL}) - p
    IN IF \E j \in i..(eol - 1) : ~_isspace(By(d, p + j)) THEN NoFence
       ELSE [len |-> eol + 1, syntax |-> syntax]

\* a syntax in braces opened at data[i1]; the scan for '}' stopped at i2
fence_braced(d, p, n, i1, i2) ==
    IF i2 = n \/ By(d, p + i2) # RBRACE THEN NoFence
    ELSE fence_rest(d, p, n, i2 + 1, TrimBoth(d, p, i1 + 1, i2))

\* the syntax starts at data[i1]
fence_syntax(d, p, n, i1) ==
    LET i2 == SkipTo(d, p + i1, p + n, {SP, NL}) - p
    IN IF i1 < n /\ By(d, p + i1) = LBRACE
       THEN fence_braced(d, p, n, i1,
                         SkipTo(d, p + i1 + 1, p + n, {RBRACE, NL}) - p)
       ELSE fence_rest(d, p, n, i2, Sub(d, p + i1, p + i2))

fence_after(d, p, n, i) ==
    IF i = 0 THEN NoFence
    ELSE fence_syntax(d, p, n, SkipIn(d, p + i, p + n, {SP}) - p)

\* [len, syntax]: len is the size of the fence line, 0 when it is none
is_codefence(d, p, n) == fence_after(d, p, n, prefix_codefence(d, p, n))

is_atxheader(m, d, p, n) ==
    IF By(d, p) # HASH THEN FALSE
    ELSE IF "SPACE_HEADERS" \in m.ext
    THEN LET level == SkipIn(d, p, p + Min({n, 6}), {HASH}) - p
         IN ~(level < n /\ By(d, p + level) # SP)
    ELSE TRUE

\* return (i >= size || data[i] == '\n') ? level : 0;
headerline_end(d, p, n, i, level) ==
    IF i >= n \/ By(d, p + i) = NL THEN level ELSE 0

is_headerline(d, p, n) ==
    IF By(d, p) = EQUALS
    THEN headerline_end(d, p, n,
             SkipIn(d, SkipIn(d, p + 1, p + n, {EQUALS}), p + n, {SP}) - p, 1)
    ELSE IF By(d, p) = DASH
    THEN headerline_end(d, p, n,
             SkipIn(d, SkipIn(d, p + 1, p + n, {DASH}), p + n, {SP}) - p, 2)
    ELSE 0

is_next_headerline(d, p, n) ==
    LET i == (SkipTo(d, p, p + n, {NL}) - p) + 1
    IN IF i >= n THEN 0 ELSE is_headerline(d, p + i, n - i)

\* up to three leading spaces: if (i < size && data[i] == ' ') i++; thrice
Spaces3(d, p, n) == SkipIn(d, p, p + Min({n, 3}), {SP}) - p

quote_at(d, p, n, i) ==
    IF i < n /\ By(d, p + i) = RANGLE
    THEN IF i + 1 < n /\ By(d, p + i + 1) = SP THEN i + 2 ELSE i + 1
    ELSE 0

prefix_quote(d, p, n) == quote_at(d, p, n, Spaces3(d, p, n))

prefix_code(d, p, n) ==
    IF n > 3 /\ Sub(d, p, p + 4) = <<SP, SP, SP, SP>> THEN 4 ELSE 0

\* the digits start at data[i0] and end at data[i]
oli_at(d, p, n, i0, i) ==
    IF i0 >= n \/ ~isdigit(By(d, p + i0)) THEN 0
    ELSE IF i + 1 >= n \/ By(d, p + i) # DOT \/ By(d, p + i + 1) # SP THEN 0
    ELSE IF is_next_headerline(d, p + i, n - i) # 0 THEN 0
    ELSE i + 2

oli_digits(d, p, n, i0) ==
    oli_at(d, p, n, i0, SkipIn(d, p + i0, p + n, 48..57) - p)

prefix_oli(d, p, n) == oli_digits(d, p, n, Spaces3(d, p, n))

uli_at(d, p, n, i) ==
    IF i + 1 >= n \/ By(d, p + i) \notin {STAR, PLUS, DASH}
       \/ By(d, p + i + 1) # SP THEN 0
    ELSE IF is_next_headerline(d, p + i, n - i) # 0 THEN 0
    ELSE i + 2

prefix_uli(d, p, n) == uli_at(d, p, n, Spaces3(d, p, n))

\* a void callback of the block level, skipped when NULL
CallBlock(m, st, ob, name, args) ==
    IF name \in m.cb THEN Call(m, st, ob, name, args) ELSE Ret(ob, st, 1)

\* the callback name over the parsed work buffer and further arguments
CallBlockOver(m, work, ob, name, more) ==
    CallBlock(m, work.st, ob, name, <<work.ob>> \o more)

\* rndr_popbuf(rndr, type)
PopBuf(r, type) == [ob |-> r.ob, st |-> rndr_popbuf(r.st, type)]

\* rndr_popbuf(rndr, BUFFER_BLOCK); return len;
PopBlock(r, len) ==
    [ob |-> r.ob, st |-> rndr_popbuf(r.st, BUFFER_BLOCK), ret |-> len]

\* for (end = beg + 1; end < size && data[end - 1] != '\n'; end++);
LineEnd(d, p, n, beg) == (SkipTo(d, p + beg, p + n - 1, {NL}) - p) + 1

(***************************************************************************)
(* HTML blocks.                                                            *)
(***************************************************************************)
block_tags ==
    {<<112>>, <<100, 108>>, <<100, 105, 118>>, <<109, 97, 116, 104>>,
     <<116, 97, 98, 108, 101>>, <<117, 108>>, <<100, 101, 108>>,
     <<102, 111, 114, 109>>,
     <<98, 108, 111, 99, 107, 113, 117, 111, 116, 101>>,
     <<102, 105, 103, 117, 114, 101>>, <<111, 108>>,
     <<102, 105, 101, 108, 100, 115, 101, 116>>, <<104, 49>>, <<104, 54>>,
     <<112, 114, 101>>, <<115, 99, 114, 105, 112, 116>>, <<104, 53>>,
     <<110, 111, 115, 99, 114, 105, 112, 116>>, <<115, 116, 121, 108, 101>>,
     <<105, 102, 114, 97, 109, 101>>, <<104, 52>>, <<105, 110, 115>>,
     <<104, 51>>, <<104, 50>>}

Lower(s) == [k \in 1..Len(s) |-> tolower(s[k])]

\* the keyword equal to str without regard to case, or <<>>
find_block_tag(str) == IF Lower(str) \in block_tags THEN Lower(str) ELSE <<>>

\* if (i < size) w = is_empty(data + i, size - i);
empty_at(d, p, n, i) == IF i < n THEN is_empty(d, p + i, n - i) ELSE 0

\* checking white lines: w is the size of the blank rest of the line at i
end_tag_blank(d, p, n, i, w) ==
    IF i < n /\ w = 0 THEN 0
    ELSE i + w + empty_at(d, p, n, i + w)

htmlblock_end_tag(tag, d, p, n) ==
    IF Len(tag) + 3 >= n \/ Lower(Sub(d, p + 2, p + 2 + Len(tag))) # tag
       \/ By(d, p + Len(tag) + 2) # RANGLE THEN 0
    ELSE end_tag_blank(d, p, n, Len(tag) + 3, empty_at(d, p, n, Len(tag) + 3))

\* while (i < size && !(data[i - 1] == '<' && data[i] == '/')) i++;
RECURSIVE close_tag_scan(_, _, _, _, _)
close_tag_scan(d, p, n, i, block_lines) ==
    IF i < n /\ ~(By(d, p + i - 1) = LANGLE /\ By(d, p + i) = SLASH)
    THEN close_tag_scan(d, p, n, i + 1,
                        IF By(d, p + i) = NL THEN block_lines + 1 ELSE block_lines)
    ELSE [i |-> i, block_lines |-> block_lines]

RECURSIVE htmlblock_end_from(_, _, _, _, _, _, _)

\* s.i is the '/' of the next closing tag, or size
htmlblock_end_at(curtag, d, p, n, start_of_line, s) ==
    LET end_tag == htmlblock_end_tag(curtag, d, p + s.i - 1, n - s.i + 1)
    IN IF start_of_line /\ s.block_lines > 0 /\ By(d, p + s.i - 2) # NL
       THEN htmlblock_end_from(curtag, d, p, n, start_of_line, s.i,
                               s.block_lines)
       ELSE IF s.i + 2 + Len(curtag) >= n THEN 0
       ELSE IF end_tag # 0 THEN s.i + end_tag - 1
       ELSE htmlblock_end_from(curtag, d, p, n, start_of_line, s.i,
                               s.block_lines)

htmlblock_end_from(curtag, d, p, n, start_of_line, i0, lines0) ==
    IF i0 >= n THEN 0
    ELSE htmlblock_end_at(curtag, d, p, n, start_of_line,
                          close_tag_scan(d, p, n, i0 + 1, lines0))

htmlblock_end(curtag, d, p, n, start_of_line) ==
    htmlblock_end_from(curtag, d, p, n, start_of_line, 1, 0)

\* while (i < size && !(data[i-2] == '-' && data[i-1] == '-' && data[i] == '>'))
RECURSIVE comment_end(_, _, _, _)
comment_end(d, p, n, i) ==
    IF i < n /\ ~(By(d, p + i - 2) = DASH /\ By(d, p + i - 1) = DASH
                  /\ By(d, p + i) = RANGLE)
    THEN comment_end(d, p, n, i + 1)
    ELSE i

\* if (j) return i + j;
blank_size(i, j) == IF j # 0 THEN i + j ELSE 0

\* the size up to the end of the blank line that starts at data[i], or 0
blank_after(d, p, n, i) == blank_size(i, empty_at(d, p, n, i))

\* HTML comment, laxist form
htmlblock_comment(d, p, n) ==
    IF n > 5 /\ By(d, p + 1) = BANG /\ By(d, p + 2) = DASH /\ By(d, p + 3) = DASH
    THEN blank_after(d, p, n, comment_end(d, p, n, 5) + 1)
    ELSE 0

\* HR, the only self-closing block tag considered
htmlblock_hr(d, p, n) ==
    IF n > 4 /\ By(d, p + 1) \in {104, 72} /\ By(d, p + 2) \in {114, 82}
    THEN blank_after(d, p, n, (SkipTo(d, p + 3, p + n, {RANGLE}) - p) + 1)
    ELSE 0

\* looking for an unindented matching closing tag, then for any one
htmlblock_closed(curtag, d, p, n, tag_end) ==
    IF tag_end = 0 /\ curtag # <<105, 110, 115>> /\ curtag # <<100, 101, 108>>
    THEN htmlblock_end(curtag, d, p, n, FALSE)
    ELSE tag_end

htmlblock_of(curtag, d, p, n) ==
    IF curtag = <<>>
    THEN IF htmlblock_comment(d, p, n) # 0 THEN htmlblock_comment(d, p, n)
         ELSE htmlblock_hr(d, p, n)
    ELSE htmlblock_closed(curtag, d, p, n, htmlblock_end(curtag, d, p, n, TRUE))

htmlblock_tag(d, p, n, i) ==
    htmlblock_of(IF i < n THEN find_block_tag(Sub(d, p + 1, p + i)) ELSE <<>>,
                 d, p, n)

\* the size of the HTML block at data, 0 when there is none
htmlblock_size(d, p, n) ==
    IF n < 2 \/ By(d, p) # LANGLE THEN 0
    ELSE htmlblock_tag(d, p, n, SkipTo(d, p + 1, p + n, {RANGLE, SP}) - p)

htmlblock_render(ob, m, st, d, p, do_render, size) ==
    IF size # 0 /\ do_render
    THEN Took(CallBlock(m, st, ob, "blockhtml", <<Sub(d, p, p + size)>>), size)
    ELSE Ret(ob, st, size)

parse_htmlblock(ob, m, st, d, p, n, do_render) ==
    htmlblock_render(ob, m, st, d, p, do_render, htmlblock_size(d, p, n))

(***************************************************************************)
(* Block recognizers.  Each returns [ob, st, ret], ret the bytes consumed.  *)
(***************************************************************************)
RECURSIVE parse_block(_, _, _, _, _, _)

\* the lines of a blockquote without their prefixes
RECURSIVE quote_lines(_, _, _, _, _, _, _)
quote_line(d, p, n, beg, work, work_data, end) ==
    LET pre == prefix_quote(d, p + beg, end - beg)
    IN IF pre = 0 /\ is_empty(d, p + beg, end - beg) # 0
          /\ (end >= n \/ (prefix_quote(d, p + end, n - end) = 0
                           /\ is_empty(d, p + end, n - end) = 0))
       THEN [end |-> end, work |-> work, work_data |-> work_data]
       ELSE IF beg + pre < end
       THEN quote_lines(d, p, n, end, work \o Sub(d, p + beg + pre, p + end),
                        IF work_data < 0 THEN p + beg + pre ELSE work_data, end)
       ELSE quote_lines(d, p, n, end, work, work_data, end)

quote_lines(d, p, n, beg, work, work_data, end0) ==
    IF beg >= n THEN [end |-> end0, work |-> work, work_data |-> work_data]
    ELSE quote_line(d, p, n, beg, work, work_data, LineEnd(d, p, n, beg))

\* the buffer after the lines were moved together in place at work_data
InPlace(d, work_data, work) ==
    Sub(d, 0, work_data) \o work \o Sub(d, work_data + Len(work), Len(d))

\* q holds the lines of the quote, moved together at q.work_data
blockquote_render(ob, m, st, d, q) ==
    PopBlock(CallBlockOver(m,
                 IF q.work_data < 0 THEN parse_block(<<>>, m, st, d, 0, 0)
                 ELSE parse_block(<<>>, m, st, InPlace(d, q.work_data, q.work),
                                  q.work_data, Len(q.work)),
                 ob, "blockquote", <<>>),
             q.end)

parse_blockquote(ob, m, st, d, p, n) ==
    blockquote_render(ob, m, rndr_newbuf(st, BUFFER_BLOCK), d,
                      quote_lines(d, p, n, 0, <<>>, -1, 0))

\* the lines of a paragraph: [i, end, level] at the exit of the loop
RECURSIVE paragraph_lines(_, _, _, _, _, _)
paragraph_line(m, d, p, n, i, end, level) ==
    IF is_empty(d, p + i, n - i) # 0 THEN [i |-> i, end |-> end, level |-> 0]
    ELSE IF level # 0 THEN [i |-> i, end |-> end, level |-> level]
    ELSE IF is_atxheader(m, d, p + i, n - i) \/ is_hrule(d, p + i, n - i)
            \/ prefix_quote(d, p + i, n - i) # 0
    THEN [i |-> i, end |-> i, level |-> 0]
    ELSE IF "LAX_SPACING" \in m.ext /\ ~isalnum(By(d, p + i))
            /\ (\/ prefix_oli(d, p + i, n - i) # 0
                \/ prefix_uli(d, p + i, n - i) # 0
                \/ (By(d, p + i) = LANGLE /\ "blockhtml" \in m.cb
                    /\ htmlblock_size(d, p + i, n - i) # 0)
                \/ ("FENCED_CODE" \in m.ext
                    /\ is_codefence(d, p + i, n - i).len # 0))
    THEN [i |-> i, end |-> i, level |-> 0]
    ELSE paragraph_lines(m, d, p, n, end, end)

paragraph_lines(m, d, p, n, i, end0) ==
    IF i >= n THEN [i |-> i, end |-> end0, level |-> 0]
    ELSE paragraph_line(m, d, p, n, i, LineEnd(d, p, n, i),
                        is_headerline(d, p + i, n - i))

\* trailing spaces dropped with the newlines
TrimNL_blanks(d, p, size) == trim_back(d, p, 0, size, {NL, SP})

\* while (size && data[size - 1] == '\n') size--;
TrimNL(d, p, size) == trim_back(d, p, 0, size, {NL})

\* a block callback over the inline rendering of data[0..n), in a buffer of type
BlockOver(ob, m, st, d, p, n, type, name, more) ==
    PopBuf(CallBlockOver(m, parse_inline(<<>>, m, rndr_newbuf(st, type), d, p, n),
                         ob, name, more),
           type)

\* while (size && data[size] != '\n') size -= 1;
RECURSIVE back_to_nl(_, _, _)
back_to_nl(d, p, size) ==
    IF size # 0 /\ By(d, p + size) # NL THEN back_to_nl(d, p, size - 1) ELSE size

\* the header callback over data[0..n), after the paragraph before it left r
paragraph_header(r, m, d, p, n, level, end) ==
    Took(BlockOver(r.ob, m, r.st, d, p, n, BUFFER_SPAN, "header",
                   <<IntArg(level)>>),
         end)

\* the setext header is the last line, which starts at s1 + 1; the lines
\* before it, when there are any, make a paragraph
paragraph_split(ob, m, st, d, p, level, end, size, s1) ==
    LET s2 == IF size # 0 THEN TrimNL(d, p, s1) ELSE 0
    IN paragraph_header(IF s2 > 0
                        THEN BlockOver(ob, m, st, d, p, s2, BUFFER_BLOCK,
                                       "paragraph", <<>>)
                        ELSE [ob |-> ob, st |-> st],
                        m, d,
                        IF s2 > 0 THEN p + s1 + 1 ELSE p,
                        IF s2 > 0 THEN size - (s1 + 1) ELSE size,
                        level, end)

paragraph_of(ob, m, st, d, p, level, end, size) ==
    IF level = 0
    THEN Took(BlockOver(ob, m, st, d, p, size, BUFFER_BLOCK, "paragraph", <<>>),
              end)
    ELSE paragraph_split(ob, m, st, d, p, level, end, size,
                         IF size # 0 THEN back_to_nl(d, p, size - 1) ELSE 0)

paragraph_end(ob, m, st, d, p, l) ==
    paragraph_of(ob, m, st, d, p, l.level, l.end, TrimNL(d, p, l.i))

parse_paragraph(ob, m, st, d, p, n) ==
    paragraph_end(ob, m, st, d, p, paragraph_lines(m, d, p, n, 0, 0))

\* the body of a fenced block: [beg, work] at the exit of the loop
RECURSIVE fence_lines(_, _, _, _, _)
fence_line(d, p, n, beg, work, f, end) ==
    IF f.len # 0 /\ f.syntax = <<>> THEN [beg |-> beg + f.len, work |-> work]
    ELSE fence_lines(d, p, n, end,
             IF is_empty(d, p + beg, end - beg) # 0 THEN Append(work, NL)
             ELSE work \o Sub(d, p + beg, p + end))

fence_lines(d, p, n, beg, work) ==
    IF beg >= n THEN [beg |-> beg, work |-> work]
    ELSE fence_line(d, p, n, beg, work, is_codefence(d, p + beg, n - beg),
                    LineEnd(d, p, n, beg))

\* if (work->size && work->data[work->size - 1] != '\n') bufputc(work, '\n');
EndNL(work) ==
    IF work # <<>> /\ work[Len(work)] # NL THEN Append(work, NL) ELSE work

fencedcode_render(ob, m, st, lang, b) ==
    PopBlock(CallBlock(m, st, ob, "blockcode",
                       <<EndNL(b.work), OrNull(lang.syntax)>>),
             b.beg)

fencedcode_body(ob, m, st, d, p, n, lang) ==
    IF lang.len = 0 THEN Ret(ob, st, 0)
    ELSE fencedcode_render(ob, m, rndr_newbuf(st, BUFFER_BLOCK), lang,
                           fence_lines(d, p, n, lang.len, <<>>))

parse_fencedcode(ob, m, st, d, p, n) ==
    fencedcode_body(ob, m, st, d, p, n, is_codefence(d, p, n))

RECURSIVE code_lines(_, _, _, _, _)
code_line(d, p, n, beg, work, end, beg1) ==
    IF beg1 = beg /\ is_empty(d, p + beg, end - beg) = 0
    THEN [beg |-> beg, work |-> work]
    ELSE code_lines(d, p, n, end,
             IF beg1 >= end THEN work
             ELSE IF is_empty(d, p + beg1, end - beg1) # 0 THEN Append(work, NL)
             ELSE work \o Sub(d, p + beg1, p + end))

code_line_end(d, p, n, beg, work, end) ==
    code_line(d, p, n, beg, work, end, beg + prefix_code(d, p + beg, end - beg))

code_lines(d, p, n, beg, work) ==
    IF beg >= n THEN [beg |-> beg, work |-> work]
    ELSE code_line_end(d, p, n, beg, work, LineEnd(d, p, n, beg))

blockcode_render(ob, m, st, b) ==
    PopBlock(CallBlock(m, st, ob, "blockcode",
                       <<Append(Sub(b.work, 0, TrimNL(b.work, 0, Len(b.work))), NL),
                         NULLBUF>>),
             b.beg)

parse_blockcode(ob, m, st, d, p, n) ==
    blockcode_render(ob, m, rndr_newbuf(st, BUFFER_BLOCK),
                     code_lines(d, p, n, 0, <<>>))

MKD_LIST_ORDERED == 1
MKD_LI_BLOCK == 2
MKD_LI_END == 8
MKD_TABLE_ALIGN_L == 1
MKD_TABLE_ALIGN_R == 2
MKD_TABLE_HEADER == 4

\* flags are kept as the set of the bits that are set
FlagArg(flags) ==
    LET RECURSIVE sum(_)
        sum(S) == IF S = {} THEN 0
                  ELSE LET x == CHOOSE y \in S : TRUE IN x + sum(S \ {x})
    IN IntArg(sum(flags))

\* the lines of a list item after the first: the exit of the loop
RECURSIVE item_lines(_, _, _, _, _, _)
\* the line s.beg .. end has the indentation i; checking for a new item
item_next(m, d, p, n, orgpre, s, end, i, has_next_uli, has_next_oli) ==
    IF s.in_empty
       /\ ((MKD_LIST_ORDERED \in s.flags /\ has_next_uli # 0)
           \/ (MKD_LIST_ORDERED \notin s.flags /\ has_next_oli # 0))
    THEN [s EXCEPT !.flags = @ \cup {MKD_LI_END}]
    ELSE IF (has_next_uli # 0 /\ ~is_hrule(d, p + s.beg + i, end - s.beg - i))
            \/ has_next_oli # 0
    THEN IF i = orgpre
         THEN [s EXCEPT !.has_inside_empty = @ \/ s.in_empty]
         ELSE item_lines(m, d, p, n, orgpre,
                  [s EXCEPT !.has_inside_empty = @ \/ s.in_empty,
                            !.sublist = IF @ = 0 THEN Len(s.work) ELSE @,
                            !.in_empty = FALSE,
                            !.work = @ \o Sub(d, p + s.beg + i, p + end),
                            !.beg = end])
    ELSE IF s.in_empty /\ i = 0
    THEN [s EXCEPT !.flags = @ \cup {MKD_LI_END}]
    ELSE item_lines(m, d, p, n, orgpre,
             [s EXCEPT !.has_inside_empty = @ \/ s.in_empty,
                       !.in_empty = FALSE,
                       !.work = (IF s.in_empty THEN Append(@, NL) ELSE @)
                                \o Sub(d, p + s.beg + i, p + end),
                       !.beg = end])

\* new list items are looked for outside of a fenced code block only
item_fence(m, d, p, n, orgpre, s, end, i, in_fence) ==
    item_next(m, d, p, n, orgpre, [s EXCEPT !.in_fence = in_fence], end, i,
              IF in_fence THEN 0 ELSE prefix_uli(d, p + s.beg + i, end - s.beg - i),
              IF in_fence THEN 0 ELSE prefix_oli(d, p + s.beg + i, end - s.beg - i))

item_line(m, d, p, n, orgpre, s, end) ==
    LET i == SkipIn(d, p + s.beg, p + Min({s.beg + 4, end}), {SP}) - (p + s.beg)
    IN IF is_empty(d, p + s.beg, end - s.beg) # 0
       THEN item_lines(m, d, p, n, orgpre,
                       [s EXCEPT !.in_empty = TRUE, !.beg = end])
       ELSE item_fence(m, d, p, n, orgpre, s, end, i,
                IF "FENCED_CODE" \in m.ext
                   /\ is_codefence(d, p + s.beg + i, end - s.beg - i).len # 0
                THEN ~s.in_fence ELSE s.in_fence)

item_lines(m, d, p, n, orgpre, s) ==
    IF s.beg >= n THEN s
    ELSE item_line(m, d, p, n, orgpre, s, LineEnd(d, p, n, s.beg))

\* if (!a) a = b;
OrElse(a, b) == IF a # 0 THEN a ELSE b

\* render of li itself; the flags are returned with the bytes consumed
listitem_done(r, beg, flags) ==
    [ob |-> r.ob,
     st |-> rndr_popbuf(rndr_popbuf(r.st, BUFFER_SPAN), BUFFER_SPAN),
     ret |-> beg, flags |-> flags]

\* the sublist that starts at work[size], when there is one
listitem_sublist(first, m, work, size) ==
    IF size < Len(work)
    THEN parse_block(first.ob, m, first.st, work, size, Len(work) - size)
    ELSE first

\* intermediate render of the li contents work[0..size) and of the sublist
listitem_inter(ob, m, st, work, beg, flags, size) ==
    listitem_done(
        CallBlockOver(m,
            listitem_sublist(IF MKD_LI_BLOCK \in flags
                             THEN parse_block(<<>>, m, st, work, 0, size)
                             ELSE parse_inline(<<>>, m, st, work, 0, size),
                             m, work, size),
            ob, "listitem", <<FlagArg(flags)>>),
        beg, flags)

\* MKD_LI_BLOCK given to the callback and not kept for the next item
listitem_render_local(ob, m, st, s) ==
    [listitem_inter(ob, m, st, s.work, s.beg,
         IF s.has_inside_empty THEN s.flags \cup {MKD_LI_BLOCK} ELSE s.flags,
         IF s.sublist # 0 /\ s.sublist < Len(s.work) THEN s.sublist
         ELSE Len(s.work))
     EXCEPT !.flags = s.flags]

\* s is the state at the exit of the loop over the lines
listitem_render(ob, m, st, s) ==
    listitem_inter(ob, m, st, s.work, s.beg,
        IF s.has_inside_empty THEN s.flags \cup {MKD_LI_BLOCK} ELSE s.flags,
        IF s.sublist # 0 /\ s.sublist < Len(s.work) THEN s.sublist
        ELSE Len(s.work))

\* beg is the size of the item prefix
listitem_first(ob, m, st, d, p, n, flags, beg) ==
    LET end == SkipTo(d, p + beg - 1, p + n - 1, {NL}) - p + 1
    IN IF beg = 0 THEN [ob |-> ob, st |-> st, ret |-> 0, flags |-> flags]
       ELSE listitem_render(ob, m,
                rndr_newbuf(rndr_newbuf(st, BUFFER_SPAN), BUFFER_SPAN),
                item_lines(m, d, p, n, Spaces3(d, p, n),
                    [beg |-> end, work |-> Sub(d, p + beg, p + end),
                     in_empty |-> FALSE, has_inside_empty |-> FALSE,
                     in_fence |-> FALSE, sublist |-> 0, flags |-> flags]))

parse_listitem(ob, m, st, d, p, n, flags) ==
    listitem_first(ob, m, st, d, p, n, flags,
                   OrElse(prefix_uli(d, p, n), prefix_oli(d, p, n)))

RECURSIVE list_items(_, _, _, _, _, _, _, _)

\* the loop going on after an item that ended the list
list_next_on(m, d, p, n, i, r) ==
    IF r.ret = 0
    THEN [r EXCEPT !.ret = i + r.ret]
    ELSE list_items(r.ob, m, r.st, d, p, n, i + r.ret, r.flags \ {MKD_LI_END})

\* if (!j || (flags & MKD_LI_END)) break;
list_next(m, d, p, n, i, r) ==
    IF r.ret = 0 \/ MKD_LI_END \in r.flags
    THEN [r EXCEPT !.ret = i + r.ret]
    ELSE list_items(r.ob, m, r.st, d, p, n, i + r.ret, r.flags)

\* while (i < size) { j = parse_listitem(...); i += j; ... }
list_items(work, m, st, d, p, n, i, flags) ==
    IF i >= n THEN [ob |-> work, st |-> st, ret |-> i, flags |-> flags]
    ELSE list_next(m, d, p, n, i,
                   Bal(st, parse_listitem(work, m, st, d, p + i, n - i, flags)))

list_render(ob, m, l) ==
    PopBlock(CallBlock(m, l.st, ob, "list", <<l.ob, FlagArg(l.flags)>>), l.ret)

\* the list callback invoked before the items are parsed
parse_list_early(ob, m, st, d, p, n, flags) ==
    LET c == CallBlock(m, rndr_newbuf(st, BUFFER_BLOCK), ob, "list",
                       <<<<>>, FlagArg(flags)>>)
        l == list_items(<<>>, m, c.st, d, p, n, 0, flags)
    IN PopBlock([ob |-> c.ob, st |-> l.st], l.ret)

parse_list(ob, m, st, d, p, n, flags) ==
    list_render(ob, m,
        list_items(<<>>, m, rndr_newbuf(st, BUFFER_BLOCK), d, p, n, 0, flags))

\* while (end && data[end - 1] == c) end--;
TrimTo(d, p, end, S) == trim_back(d, p, 0, end, S)

\* the header text is data[i..skip) without its closing hashes and blanks
atxheader_text(ob, m, st, d, p, level, i, skip) ==
    LET end == TrimTo(d, p, TrimTo(d, p, skip, {HASH}), {SP})
    IN IF end > i
       THEN Took(BlockOver(ob, m, st, d, p + i, end - i, BUFFER_SPAN, "header",
                           <<IntArg(level)>>),
                 skip)
       ELSE Ret(ob, st, skip)

atxheader_at(ob, m, st, d, p, n, level) ==
    LET i == SkipIn(d, p + level, p + n, {SP}) - p
    IN atxheader_text(ob, m, st, d, p, level, i,
                      SkipTo(d, p + i, p + n, {NL}) - p)

parse_atxheader(ob, m, st, d, p, n) ==
    atxheader_at(ob, m, st, d, p, n, SkipIn(d, p, p + Min({n, 6}), {HASH}) - p)

(***************************************************************************)
(* Tables.                                                                 *)
(***************************************************************************)
RECURSIVE row_cells(_, _, _, _, _, _, _, _, _, _)

\* the cell callback, entered with state st, left r; s is the next cell
row_next(st, r, m, d, p, n, columns, col_data, header_flag, s) ==
    IF Leaks(st, r)
    THEN row_cells(r.ob, m, [r.st EXCEPT !.leak = TRUE], d, p, n, columns,
                   col_data, header_flag, s)
    ELSE row_cells(r.ob, m, r.st, d, p, n, columns, col_data, header_flag, s)

\* the cell starts at cell_start, after the blanks
row_cell(row_work, m, st, d, p, n, columns, col_data, header_flag, s,
         cell_start) ==
    LET i == SkipTo(d, p + cell_start, p + n, {PIPE}) - p
    IN row_next(st,
                BlockOver(row_work, m, st, d, p + cell_start,
                          trim_back(d, p, cell_start + 1, i, {SP, NL}) - cell_start,
                          BUFFER_SPAN, "table_cell",
                          <<IntArg(col_data[s.col + 1] + header_flag)>>),
                m, d, p, n, columns, col_data, header_flag,
                [i |-> i + 1, col |-> s.col + 1])

\* a row that ends before the last column left short
row_cells_short(row_work, m, st, d, p, n, columns, col_data, header_flag, s) ==
    IF s.col < columns /\ s.i < n
    THEN row_cell(row_work, m, st, d, p, n, columns, col_data, header_flag, s,
                  SkipIn(d, p + s.i, p + n, {SP, NL}) - p)
    ELSE [ob |-> row_work, st |-> st]

row_cells(row_work, m, st, d, p, n, columns, col_data, header_flag, s) ==
    IF s.col < columns /\ s.i < n
    THEN row_cell(row_work, m, st, d, p, n, columns, col_data, header_flag, s,
                  SkipIn(d, p + s.i, p + n, {SP, NL}) - p)
    ELSE IF s.col < columns
    THEN row_next(st,
                  Call(m, st, row_work, "table_cell",
                       <<<<>>, IntArg(col_data[s.col + 1] + header_flag)>>),
                  m, d, p, n, columns, col_data, header_flag,
                  [s EXCEPT !.col = @ + 1])
    ELSE [ob |-> row_work, st |-> st]

parse_table_row(ob, m, st, d, p, n, columns, col_data, header_flag) ==
    IF "table_cell" \notin m.cb \/ "table_row" \notin m.cb
    THEN [ob |-> ob, st |-> st]
    ELSE PopBuf(CallBlockOver(m,
                    row_cells(<<>>, m, rndr_newbuf(st, BUFFER_SPAN), d, p, n,
                              columns, col_data, header_flag,
                              [i |-> IF 0 < n /\ By(d, p) = PIPE THEN 1 ELSE 0,
                               col |-> 0]),
                    ob, "table_row", <<>>),
                BUFFER_SPAN)

Pipes(d, p, a, b) == Cardinality({j \in a..(b - 1) : By(d, p + j) = PIPE})

\* the columns of the header underline: the alignments, or <<-1>> when the
\* underline does not fit.  data[i] is read at i = under_end as well: both
\* outcomes of that read leave the loop with col < columns
RECURSIVE under_cols(_, _, _, _, _, _)

\* the column ends at data[i], after the blanks behind its dashes
under_sep(d, p, under_end, columns, col_data, left, right, dashes, i) ==
    IF i < under_end /\ By(d, p + i) # PIPE THEN <<-1>>
    ELSE IF dashes < 3 THEN <<-1>>
    ELSE under_cols(d, p, under_end, columns, i + 1,
             Append(col_data, (IF left THEN MKD_TABLE_ALIGN_L ELSE 0)
                              + (IF right THEN MKD_TABLE_ALIGN_R ELSE 0)))

\* the dashes are data[i2..i3)
under_dashes(d, p, under_end, columns, col_data, left, i2, i3) ==
    LET right == i3 < under_end /\ By(d, p + i3) = COLON
    IN under_sep(d, p, under_end, columns, col_data, left, right,
                 (IF left THEN 1 ELSE 0) + (i3 - i2) + (IF right THEN 1 ELSE 0),
                 SkipIn(d, p + (IF right THEN i3 + 1 ELSE i3), p + under_end,
                        {SP}) - p)

\* the column starts at data[i1], after the blanks
under_col(d, p, under_end, columns, col_data, i1) ==
    LET left == By(d, p + i1) = COLON
        i2 == IF left THEN i1 + 1 ELSE i1
    IN IF i1 >= under_end THEN <<-1>>
       ELSE under_dashes(d, p, under_end, columns, col_data, left, i2,
                         SkipIn(d, p + i2, p + under_end, {DASH}) - p)

under_cols(d, p, under_end, columns, i0, col_data) ==
    IF Len(col_data) >= columns THEN col_data
    ELSE IF i0 >= under_end THEN <<-1>>
    ELSE under_col(d, p, under_end, columns, col_data,
                   SkipIn(d, p + i0, p + under_end, {SP}) - p)

NoHeader(ob, st) ==
    [ob |-> ob, st |-> st, ret |-> 0, columns |-> 0, col_data |-> <<>>]

\* the header row left r
table_header_of(r, ret, columns, col_data) ==
    [ob |-> r.ob, st |-> r.st, ret |-> ret, columns |-> columns,
     col_data |-> col_data]

table_header_row(ob, m, st, d, p, header_end, columns, under_end, col_data) ==
    IF col_data = <<-1>> THEN NoHeader(ob, st)
    ELSE table_header_of(parse_table_row(ob, m, st, d, p, header_end, columns,
                                         col_data, MKD_TABLE_HEADER),
                         under_end + 1, columns, col_data)

\* the header line ends at data[i]
table_header_line(ob, m, st, d, p, n, i) ==
    LET pipes == Pipes(d, p, 0, i)
        header_end == trim_back(d, p, 0, i, {SP, NL})
        columns == pipes + 1 - (IF By(d, p) = PIPE THEN 1 ELSE 0)
                   - (IF header_end # 0 /\ By(d, p + header_end - 1) = PIPE
                      THEN 1 ELSE 0)
        i1 == IF i + 1 < n /\ By(d, p + i + 1) = PIPE THEN i + 2 ELSE i + 1
        under_end == SkipTo(d, p + i1, p + n, {NL}) - p
    IN IF i = n \/ pipes = 0 THEN NoHeader(ob, st)
       ELSE table_header_row(ob, m, st, d, p, header_end, columns, under_end,
                             under_cols(d, p, under_end, columns, i1, <<>>))

parse_table_header(ob, m, st, d, p, n) ==
    table_header_line(ob, m, st, d, p, n, SkipTo(d, p, p + n, {NL}) - p)

RECURSIVE table_rows(_, _, _, _, _, _, _, _)

\* the row callback, entered with state st, left r; the next row starts at
\* data[i]
table_row_next(st, r, m, d, p, n, h, i) ==
    IF Leaks(st, r)
    THEN table_rows(r.ob, m, [r.st EXCEPT !.leak = TRUE], d, p, n, h, i)
    ELSE table_rows(r.ob, m, r.st, d, p, n, h, i)

table_rows(body_work, m, st, d, p, n, h, i) ==
    LET e == SkipTo(d, p + i, p + n, {NL}) - p
    IN IF i >= n THEN [ob |-> body_work, st |-> st, ret |-> i]
       ELSE IF Pipes(d, p, i, e) = 0 \/ e = n
       THEN [ob |-> body_work, st |-> st, ret |-> i]
       ELSE table_row_next(st,
                           parse_table_row(body_work, m, st, d, p + i, e - i,
                                           h.columns, h.col_data, 0),
                           m, d, p, n, h, e + 1)

\* rndr_popbuf(rndr, BUFFER_SPAN); rndr_popbuf(rndr, BUFFER_BLOCK); return i;
table_done(r, i) ==
    Ret(r.ob, rndr_popbuf(rndr_popbuf(r.st, BUFFER_SPAN), BUFFER_BLOCK), i)

table_render(ob, m, h, body) ==
    table_done(CallBlock(m, body.st, ob, "table", <<h.ob, body.ob>>), body.ret)

\* h is what parse_table_header returned
table_body(ob, m, d, p, n, h) ==
    IF h.ret > 0
    THEN table_render(ob, m, h, table_rows(<<>>, m, h.st, d, p, n, h, h.ret))
    ELSE table_done([ob |-> ob, st |-> h.st], 0)

parse_table(ob, m, st, d, p, n) ==
    table_body(ob, m, d, p, n,
        parse_table_header(<<>>, m,
            rndr_newbuf(rndr_newbuf(st, BUFFER_SPAN), BUFFER_BLOCK), d, p, n))

(***************************************************************************)
(* parse_block: one block after the other until the data is consumed.      *)
(***************************************************************************)
\* the first branch of the loop body that accepts data: html, fenced and
\* table are what parse_htmlblock, parse_fencedcode and parse_table return
\* when they are tried
block_kind(m, d, p, n, html, fenced, table) ==
    IF is_atxheader(m, d, p, n) THEN "atxheader"
    ELSE IF html.ret # 0 THEN "htmlblock"
    ELSE IF is_empty(d, p, n) # 0 THEN "empty"
    ELSE IF is_hrule(d, p, n) THEN "hrule"
    ELSE IF fenced.ret # 0 THEN "fencedcode"
    ELSE IF table.ret # 0 THEN "table"
    ELSE IF prefix_quote(d, p, n) # 0 THEN "blockquote"
    ELSE IF prefix_code(d, p, n) # 0 THEN "blockcode"
    ELSE IF prefix_uli(d, p, n) # 0 THEN "uli"
    ELSE IF prefix_oli(d, p, n) # 0 THEN "oli"
    ELSE "paragraph"

\* the branch kind applied; a table that was not recognized has still used
\* the pools
block_of(kind, ob, m, st, d, p, n, html, fenced, table) ==
    CASE kind = "atxheader" -> parse_atxheader(ob, m, st, d, p, n)
      [] kind = "htmlblock" -> html
      [] kind = "empty" -> Ret(ob, st, is_empty(d, p, n))
      [] kind = "hrule" -> Took(CallBlock(m, st, ob, "hrule", <<>>),
                                (SkipTo(d, p, p + n, {NL}) - p) + 1)
      [] kind = "fencedcode" -> fenced
      [] kind = "table" -> table
      [] kind = "blockquote" -> parse_blockquote(ob, m, table.st, d, p, n)
      [] kind = "blockcode" -> parse_blockcode(ob, m, table.st, d, p, n)
      [] kind = "uli" -> parse_list(ob, m, table.st, d, p, n, {})
      [] kind = "oli" -> parse_list(ob, m, table.st, d, p, n,
                                    {MKD_LIST_ORDERED})
      [] kind = "paragraph" -> parse_paragraph(ob, m, table.st, d, p, n)

block_tried(ob, m, st, d, p, n, html, fenced, table) ==
    block_of(block_kind(m, d, p, n, html, fenced, table),
             ob, m, st, d, p, n, html, fenced, table)

\* the block recognizer chosen for data, applied
block_at(ob, m, st, d, p, n) ==
    block_tried(ob, m, st, d, p, n,
        IF By(d, p) = LANGLE /\ "blockhtml" \in m.cb
        THEN parse_htmlblock(ob, m, st, d, p, n, TRUE)
        ELSE Ret(ob, st, 0),
        IF "FENCED_CODE" \in m.ext THEN parse_fencedcode(ob, m, st, d, p, n)
        ELSE Ret(ob, st, 0),
        IF "TABLES" \in m.ext THEN Bal(st, parse_table(ob, m, st, d, p, n))
        ELSE Ret(ob, st, 0))

RECURSIVE block_loop(_, _, _, _, _, _, _)

\* the recognizer of the block at data[beg] returned r
block_next(st, r, m, d, p, n, beg) ==
    IF r.ret = 0
    THEN [ob |-> r.ob, st |-> [Bal(st, r).st EXCEPT !.stall = TRUE]]
    ELSE block_loop(r.ob, m, Bal(st, r).st, d, p, n, beg + r.ret)

block_loop(ob, m, st, d, p, n, beg) ==
    IF beg >= n THEN [ob |-> ob, st |-> st]
    ELSE block_next(st, block_at(ob, m, st, d, p + beg, n - beg),
                    m, d, p, n, beg)

\* parse_block without its test of the nesting
parse_block_unguarded(ob, m, st, d, p, n) ==
    [block_loop(ob, m, parse_enter(st), d, p, n, 0)
        EXCEPT !.st.chain = parse_leave(@)]

parse_block(ob, m, st, d, p, n) ==
    IF Active(st) > m.max_nesting THEN [ob |-> ob, st |-> st]
    ELSE [block_loop(ob, m, parse_enter(st), d, p, n, 0)
            EXCEPT !.st.chain = parse_leave(@)]

(***************************************************************************)
(* The second pass of sd_markdown_render over the staged text txt.         *)
(***************************************************************************)
\* what the render leaves: the output and the state of the context
document_out(f) ==
    [ob |-> f.ob, trace |-> f.st.trace, pool |-> f.st.pool,
     in_link_body |-> f.st.in_link_body,
     leak |-> f.st.leak \/ f.st.pool.spn.size # 0 \/ f.st.pool.blk.size # 0,
     stall |-> f.st.stall, deep |-> f.st.deep, flat |-> f.st.flat]

document_footer(m, b) == CallBlock(m, b.st, b.ob, "doc_footer", <<>>)

\* adding a final newline if not already present
document_body(m, txt, h) ==
    LET t == IF txt[Len(txt)] \notin {NL, CR} THEN Append(txt, NL) ELSE txt
    IN IF txt # <<>> THEN parse_block(h.ob, m, h.st, t, 0, Len(t)) ELSE h

parse_document(m, txt) ==
    document_out(document_footer(m, document_body(m, txt,
        CallBlock(m, [pool |-> m.pool, in_link_body |-> m.in_link_body,
                      trace |-> <<>>, leak |-> FALSE, stall |-> FALSE,
                      chain |-> <<>>, deep |-> 0, flat |-> FALSE],
                  <<>>, "doc_header", <<>>))))

(***************************************************************************)
(* struct sd_buf.  The bytes data[0..size) are kept as a sequence of runs  *)
(* [c, n] (n times the byte c, adjacent runs of different bytes), so that  *)
(* a buffer of 16 MiB is a small value.  asize and unit are the fields of  *)
(* the struct; nul tells that data[size] is inside the allocation and      *)
(* known to be 0.  NoBuf is the pointer before sd_bufnew.                  *)
(***************************************************************************)
BUF_OK == 0
BUF_ENOMEM == -1
BUFFER_MAX_ALLOC_SIZE == 16777216

Run(c, n) == IF n = 0 THEN <<>> ELSE <<[c |-> c, n |-> n]>>

RECURSIVE RunLen(_)
RunLen(r) == IF r = <<>> THEN 0 ELSE r[1].n + RunLen(Tail(r))

\* r followed by s
RunCat(r, s) ==
    IF r = <<>> THEN s
    ELSE IF s = <<>> THEN r
    ELSE IF r[Len(r)].c = s[1].c
    THEN SubSeq(r, 1, Len(r) - 1)
         \o <<[c |-> s[1].c, n |-> r[Len(r)].n + s[1].n]>> \o Tail(s)
    ELSE r \o s

\* r without its first k bytes
RECURSIVE RunDrop(_, _)
RunDrop(r, k) ==
    IF k = 0 \/ r = <<>> THEN r
    ELSE IF r[1].n <= k THEN RunDrop(Tail(r), k - r[1].n)
    ELSE <<[c |-> r[1].c, n |-> r[1].n - k]>> \o Tail(r)

\* the byte r[i], i counted from 0
RECURSIVE RunAt(_, _)
RunAt(r, i) == IF i < r[1].n THEN r[1].c ELSE RunAt(Tail(r), i - r[1].n)

\* the runs of a sequence of bytes
RECURSIVE RunsOf(_)
RunsOf(s) == IF s = <<>> THEN <<>> ELSE RunCat(Run(s[1], 1), RunsOf(Tail(s)))

NoBuf == [data |-> <<>>, asize |-> 0, unit |-> 0, nul |-> FALSE]

\* no call was made yet
NoCall == [op |-> "none", arg |-> 0, ret |-> 0, calls |-> 0]

\* buf->size
SizeOf(b) == RunLen(b.data)

sd_bufnew(unit) == [data |-> <<>>, asize |-> 0, unit |-> unit, nul |-> FALSE]

\* the allocation grown to the requested size exactly
grow_asize_exact(neoasz, neosz, unit) ==
    IF neoasz < neosz THEN neosz ELSE neoasz

\* neoasz = buf->asize + buf->unit; while (neoasz < neosz) neoasz += buf->unit;
\* the sum the loop ends with
grow_asize(neoasz, neosz, unit) ==
    IF neoasz < neosz
    THEN LET k == (neosz - neoasz + unit - 1) \div unit
         IN neoasz + k * unit
    ELSE neoasz

\* the 16 MiB limit tested after the reallocation
sd_bufgrow_late(b, neosz, ok) ==
    IF b.asize >= neosz THEN [buf |-> b, ret |-> BUF_OK]
    ELSE IF ~ok THEN [buf |-> b, ret |-> BUF_ENOMEM]
    ELSE [buf |-> [b EXCEPT !.asize = grow_asize(b.asize + b.unit, neosz, b.unit)],
          ret |-> IF neosz > BUFFER_MAX_ALLOC_SIZE THEN BUF_ENOMEM ELSE BUF_OK]

\* realloc succeeds when ok; the result is [buf, ret]
sd_bufgrow(b, neosz, ok) ==
    IF neosz > BUFFER_MAX_ALLOC_SIZE THEN [buf |-> b, ret |-> BUF_ENOMEM]
    ELSE IF b.asize >= neosz THEN [buf |-> b, ret |-> BUF_OK]
    ELSE IF ~ok THEN [buf |-> b, ret |-> BUF_ENOMEM]
    ELSE [buf |-> [b EXCEPT !.asize = grow_asize(b.asize + b.unit, neosz, b.unit)],
          ret |-> BUF_OK]

\* data is the runs of the len bytes appended; the result is [buf, ret],
\* ret the value of sd_bufgrow when it was called
sd_bufput(b, data, ok) ==
    LET len == RunLen(data)
        g == IF SizeOf(b) + len > b.asize
             THEN sd_bufgrow(b, SizeOf(b) + len, ok)
             ELSE [buf |-> b, ret |-> BUF_OK]
    IN IF g.ret < 0 THEN g
       ELSE [buf |-> [g.buf EXCEPT !.data = RunCat(@, data),
                                   !.nul = IF len = 0 THEN @ ELSE FALSE],
             ret |-> BUF_OK]

\* str is a C string, its bytes before the terminator: strlen(str) = Len(str)
sd_bufputs(b, str, ok) == sd_bufput(b, RunsOf(str), ok)

sd_bufputc(b, c, ok) ==
    LET g == IF SizeOf(b) + 1 > b.asize
             THEN sd_bufgrow(b, SizeOf(b) + 1, ok)
             ELSE [buf |-> b, ret |-> BUF_OK]
    IN IF g.ret < 0 THEN g
       ELSE [buf |-> [g.buf EXCEPT !.data = RunCat(@, Run(c, 1)),
                                   !.nul = FALSE],
             ret |-> BUF_OK]

\* ret is 1 for the pointer buf->data and 0 for NULL.  Whatever the byte
\* data[size] holds when size < asize, the call leaves it 0.
sd_bufcstr(b, ok) ==
    IF SizeOf(b) < b.asize
    THEN [buf |-> [b EXCEPT !.nul = TRUE], ret |-> 1]
    ELSE LET g == sd_bufgrow(b, SizeOf(b) + 1, ok)
         IN IF g.ret = 0 THEN [buf |-> [g.buf EXCEPT !.nul = TRUE], ret |-> 1]
            ELSE [buf |-> b, ret |-> 0]

\* free(buf->data); buf->data = NULL; buf->size = buf->asize = 0;
sd_bufreset(b) == [b EXCEPT !.data = <<>>, !.asize = 0, !.nul = FALSE]

\* memmove leaves data[size] as it was: the byte that stood at the new size
sd_bufslurp(b, len) ==
    IF len >= SizeOf(b)
    THEN [b EXCEPT !.data = <<>>,
                   !.nul = IF SizeOf(b) = 0 THEN @ ELSE RunAt(b.data, 0) = 0]
    ELSE [b EXCEPT !.data = RunDrop(@, len),
                   !.nul = IF len = 0 THEN @
                           ELSE RunAt(b.data, SizeOf(b) - len) = 0]

\* prefix is a C string, its bytes before the terminator; prefix[i] is 0 at
\* i = Len(prefix)
RECURSIVE bufprefix_from(_, _, _)
bufprefix_from(b, prefix, i) ==
    IF i >= SizeOf(b) THEN 0
    ELSE IF i >= Len(prefix) THEN 0
    ELSE IF RunAt(b.data, i) # prefix[i + 1]
    THEN RunAt(b.data, i) - prefix[i + 1]
    ELSE bufprefix_from(b, prefix, i + 1)

sd_bufprefix(b, prefix) == bufprefix_from(b, prefix, 0)

(***************************************************************************)
(* The state: one parser context md and the render in progress on it; one  *)
(* struct sd_buf and the last call made on it.                             *)
(***************************************************************************)
VARIABLES
    md,         \* struct sd_markdown: cb, ret0, ext, max_nesting, refs,
                \* pool (work_bufs), in_link_body
    document,   \* the bytes given to sd_markdown_render
    text,       \* the staged text of the first pass
    beg,        \* the first pass's cursor into document
    ob,         \* the output buffer of the render
    trace,      \* the callbacks invoked by the render, in order
    pc,         \* "idle", "first_pass", "second_pass" or "cleanup"
    heap,       \* per link_ref block, how many times it was freed
    renders,    \* the renders completed on md
    first,      \* document, output and callbacks of the first render on md
    ghost,      \* [leak, stall, deep, flat]: a recognizer returned with
                \* another pool count than on entry; a parse loop did not
                \* advance; the most parse calls nested in one another; a
                \* parse call entered with no more buffers than its caller
    mode,       \* which documents and configurations are drawn
    buf,        \* struct sd_buf: data, asize, unit (and nul)
    called      \* the last call on buf: [op, arg, ret, calls], calls the
                \* number of calls made since sd_bufnew

mdvars == <<md, document, text, beg, ob, trace, pc, heap, renders, first,
            ghost>>

bufvars == <<buf, called>>

vars == <<md, document, text, beg, ob, trace, pc, heap, renders, first,
          ghost, mode, buf, called>>

\* stack_init(&md->work_bufs[BUFFER_BLOCK], 4); stack_init(..SPAN.., 8)
\* a pool is [size, asize, cached]: cached counts its non-NULL items
NewPools == [blk |-> [size |-> 0, asize |-> 4, cached |-> 0],
             spn |-> [size |-> 0, asize |-> 8, cached |-> 0]]

sd_markdown_new(extensions, max_nesting, callbacks, returning0) ==
    [cb |-> callbacks, ret0 |-> returning0, ext |-> extensions,
     max_nesting |-> max_nesting, refs |-> NoRefs, pool |-> NewPools,
     in_link_body |-> 0]

NoRender == [document |-> <<>>, ob |-> <<>>, trace |-> <<>>]

(***************************************************************************)
(* sd_markdown_render, up to the first pass: the reference table is reset  *)
(* and a leading UTF-8 BOM is skipped.                                     *)
(***************************************************************************)
\* the table of the render before left as it was
reset_refs_kept(refs) == refs

\* memset(&md->refs, 0x0, REF_TABLE_SIZE * sizeof(void *));
reset_refs(refs) == NoRefs

\* the BOM left in place
skip_bom_never(doc) == 0

skip_bom(doc) ==
    IF Len(doc) >= 3 /\ Sub(doc, 0, 3) = UTF8_BOM THEN 3 ELSE 0

RenderBegin(doc) ==
    /\ pc = "idle"
    /\ document' = doc
    /\ text' = <<>>
    /\ md' = [md EXCEPT !.refs = reset_refs(md.refs)]
    /\ beg' = skip_bom(doc)
    /\ ob' = <<>>
    /\ trace' = <<>>
    /\ pc' = "first_pass"
    /\ UNCHANGED <<heap, renders, first, ghost, mode>>
    /\ UNCHANGED bufvars

(***************************************************************************)
(* One iteration of the first pass's loop over lines: a reference          *)
(* definition is inserted into the table, any other line is copied.        *)
(***************************************************************************)
RefLine ==
    /\ pc = "first_pass"
    /\ beg < Len(document)
    /\ \E r \in {is_ref(document, beg, Len(document))} :
          /\ r.ok
          /\ md' = [md EXCEPT !.refs = add_link_ref(md.refs, r.name, r.link,
                                                    r.title, Len(heap) + 1)]
          /\ heap' = Append(heap, 0)
          /\ beg' = r.last
    /\ UNCHANGED <<document, text, ob, trace, pc, renders, first, ghost, mode>>
    /\ UNCHANGED bufvars

\* add one \n per newline
RECURSIVE put_newlines(_, _, _)
put_newlines(txt, doc, end) ==
    IF end < Len(doc) /\ By(doc, end) \in {NL, CR}
    THEN put_newlines(
             IF By(doc, end) = NL
                \/ (end + 1 < Len(doc) /\ By(doc, end + 1) # NL)
             THEN Append(txt, NL) ELSE txt,
             doc, end + 1)
    ELSE [text |-> txt, end |-> end]

copy_line(txt, doc, b) ==
    LET end == SkipTo(doc, b, Len(doc), {NL, CR})
        body == IF end > b THEN expand_tabs(txt, Sub(doc, b, end)) ELSE txt
    IN put_newlines(body, doc, end)

CopyLine ==
    /\ pc = "first_pass"
    /\ beg < Len(document)
    /\ ~is_ref(document, beg, Len(document)).ok
    /\ \E r \in {copy_line(text, document, beg)} :
          /\ text' = r.text
          /\ beg' = r.end
    /\ UNCHANGED <<md, document, ob, trace, pc, heap, renders, first, ghost,
                   mode>>
    /\ UNCHANGED bufvars

(***************************************************************************)
(* The second pass: doc_header, the block parse of the staged text (with   *)
(* a final newline added), doc_footer.                                     *)
(***************************************************************************)
SecondPass ==
    /\ pc = "first_pass"
    /\ beg >= Len(document)
    /\ \E r \in {parse_document(md, text)} :
          /\ ob' = r.ob
          /\ trace' = r.trace
          /\ md' = [md EXCEPT !.pool = r.pool,
                              !.in_link_body = r.in_link_body]
          /\ ghost' = [leak |-> ghost.leak \/ r.leak,
                       stall |-> ghost.stall \/ r.stall,
                       deep |-> IF r.deep > ghost.deep THEN r.deep
                                ELSE ghost.deep,
                       flat |-> ghost.flat \/ r.flat]
    /\ pc' = "cleanup"
    /\ UNCHANGED <<document, text, beg, heap, renders, first, mode>>
    /\ UNCHANGED bufvars

\* sd_bufrelease(text); free_link_refs(md->refs); the table keeps its
\* (now dangling) pointers until the next render resets it
CleanUp ==
    /\ pc = "cleanup"
    /\ heap' = free_link_refs(md.refs, heap)
    /\ renders' = renders + 1
    /\ first' = IF renders = 0
                THEN [document |-> document, ob |-> ob, trace |-> trace]
                ELSE first
    /\ pc' = "idle"
    /\ UNCHANGED <<md, document, text, beg, ob, trace, ghost, mode>>
    /\ UNCHANGED bufvars


(***************************************************************************)
(* The whole first pass and the whole render as operators, for comparing   *)
(* the renders of two documents.                                           *)
(***************************************************************************)
RECURSIVE first_pass(_, _, _, _, _)

\* is_ref returned r for the line at doc[b]
first_pass_line(doc, b, txt, refs, n, r) ==
    IF r.ok
    THEN first_pass(doc, r.last, txt,
                    add_link_ref(refs, r.name, r.link, r.title, n + 1), n + 1)
    ELSE LET c == copy_line(txt, doc, b)
         IN first_pass(doc, c.end, c.text, refs, n)

first_pass(doc, b, txt, refs, n) ==
    IF b >= Len(doc) THEN [text |-> txt, refs |-> refs]
    ELSE first_pass_line(doc, b, txt, refs, n, is_ref(doc, b, Len(doc)))

\* the second pass over what the first pass left
second_pass(m, p) == parse_document([m EXCEPT !.refs = p.refs], p.text)

sd_markdown_render(m, doc) ==
    second_pass(m, first_pass(doc, skip_bom(doc), <<>>, reset_refs(m.refs), 0))

(***************************************************************************)
(* The documents and configurations the checks draw from.                  *)
(***************************************************************************)
MaxPreLen == 4
MaxLen == 3
MaxRenders == 3

Letter == [a |-> 97, b |-> 98, c |-> 99, d |-> 100, f |-> 102, i |-> 105,
           j |-> 106, k |-> 107, p |-> 112, t |-> 116, u |-> 117, v |-> 118,
           w |-> 119, x |-> 120, y |-> 121, z |-> 122]
LA == Letter.a
LB == Letter.b
LU == Letter.u

Seqs(S, n) == UNION {[1..k -> S] : k \in 0..n}

\* [a]: u
RefDefA == <<LBRACKET, LA, RBRACKET, COLON, SP, LU>>

PreDocs ==
    LET base == Seqs({TAB, NL, CR, LA}, MaxPreLen)
        short == Seqs({TAB, NL, CR, LA}, 1)
    IN base
       \cup {UTF8_BOM \o s : s \in base}
       \cup {UTF8_BOM \o UTF8_BOM \o s : s \in short}
       \cup {<<LA>> \o s \o UTF8_BOM \o t : s \in short, t \in short}
       \cup {UTF8_BOM \o <<LA>> \o s \o UTF8_BOM \o t : s \in short, t \in short}
       \cup {RefDefA \o s \o t : s \in {<<NL>>, <<CR>>, <<CR, NL>>},
                                 t \in Seqs({TAB, CR, LA}, 2)}
       \cup {UTF8_BOM \o RefDefA \o <<NL>> \o t : t \in Seqs({TAB, LA}, 2)}

\* one span construct each, closed or left open
Spans ==
    {<<LA>>,
     <<STAR, LA, STAR>>,                                    \* *a*
     <<UNDERSCORE, LA, UNDERSCORE>>,                        \* _a_
     <<STAR, STAR, LA, STAR, STAR>>,                        \* **a**
     <<STAR, STAR, STAR, LA, STAR, STAR, STAR>>,            \* ***a***
     <<TILDE, TILDE, LA, TILDE, TILDE>>,                    \* ~~a~~
     <<BACKTICK, LA, BACKTICK>>,                            \* `a`
     <<LBRACKET, LA, RBRACKET, LPAREN, LU, RPAREN>>,        \* [a](u)
     <<BANG, LBRACKET, LA, RBRACKET, LPAREN, LU, RPAREN>>,  \* ![a](u)
     <<LBRACKET, LA, RBRACKET>>,                            \* [a]
     <<LANGLE, LB, RANGLE>>,                                \* <b>
     <<LANGLE, LA, LB, COLON, LU, RANGLE>>,                 \* <ab:u>
     <<LANGLE, LA, ATSIGN, LB, RANGLE>>,                    \* <a@b>
     <<Letter.f, Letter.t, Letter.p, COLON, SLASH, SLASH, LA, DOT, LB>>,
     <<Letter.w, Letter.w, Letter.w, DOT, LA, DOT, LB>>,    \* www.a.b
     <<LA, ATSIGN, LB, DOT, LA>>,                           \* a@b.a
     <<LA, CARET, LB>>,                                     \* a^b
     <<LA, CARET, LPAREN, LB, RPAREN>>,                     \* a^(b)
     <<AMP, LA, SEMI>>,                                     \* &a;
     <<BACKSLASH, STAR>>,                                   \* \*
     <<LA, SP, SP, NL, LB>>,                                \* a, hard break, b
     <<STAR, LA>>,                                          \* *a
     <<LBRACKET, LA, RBRACKET, LPAREN, LU>>,                \* [a](u
     <<BACKTICK, LA>>,                                      \* `a
     <<LANGLE, LB>>}                                        \* <b

\* a span alone, emphasized, or as the text of a link
Lines ==
    Spans
    \cup {<<STAR>> \o s \o <<STAR>> : s \in Spans}
    \cup {<<LBRACKET>> \o s \o <<RBRACKET, LPAREN, LU, RPAREN>> : s \in Spans}

\* the line prefixes of a quote, a list item, a header and a code block
Prefixes ==
    {<<>>, <<RANGLE, SP>>, <<DASH, SP>>, <<49, DOT, SP>>, <<HASH, SP>>,
     <<SP, SP, SP, SP>>, <<RANGLE, SP, RANGLE, SP>>, <<RANGLE, SP, DASH, SP>>,
     <<DASH, SP, RANGLE, SP>>}

Blocks ==
    {<<>>, <<NL>>,
     <<DASH, DASH, DASH, NL>>,                              \* hrule
     <<LA, NL, EQUALS, NL>>, <<LA, NL, DASH, NL>>,          \* setext headers
     <<HASH, SP, LA, SP, HASH, NL>>,
     <<LA, NL, NL, LB, NL>>,                                \* two paragraphs
     <<BACKTICK, BACKTICK, BACKTICK, NL, LA, NL,
       BACKTICK, BACKTICK, BACKTICK, NL>>,                  \* fenced code
     <<TILDE, TILDE, TILDE, SP, LB, NL, LA, NL>>,           \* fence left open
     <<LA, PIPE, LB, NL, DASH, DASH, DASH, PIPE, DASH, DASH, DASH, NL,
       STAR, LA, STAR, PIPE, LB, NL>>,                      \* a table
     <<PIPE, LA, PIPE, NL, PIPE, COLON, DASH, COLON, PIPE, NL>>,
     <<LA, PIPE, LB, NL, LA, NL>>,                          \* no table after all
     <<LANGLE, Letter.p, RANGLE, NL, LA, NL,
       LANGLE, SLASH, Letter.p, RANGLE, NL, NL>>,           \* <p> a </p>
     <<LANGLE, BANG, DASH, DASH, LA, DASH, DASH, RANGLE, NL, NL>>,
     <<DASH, SP, LA, NL, DASH, SP, LB, NL>>,                \* a list of two
     <<DASH, SP, LA, NL, NL, DASH, SP, LB, NL>>,            \* a loose list
     <<DASH, SP, LA, NL, SP, SP, DASH, SP, LB, NL>>,        \* a nested list
     <<49, DOT, SP, LA, NL, 50, DOT, SP, LB, NL>>,
     <<SP, SP, SP, SP, LA, NL, SP, SP, SP, SP, LB, NL>>,
     <<RANGLE, SP, LA, NL, RANGLE, SP, LB, NL>>,
     RefDefA \o <<NL, LBRACKET, LA, RBRACKET, NL>>,
     <<LBRACKET, Letter.x, RBRACKET, LBRACKET, LA, RBRACKET, NL, NL>>
         \o RefDefA \o <<SP, DQUOTE, Letter.t, DQUOTE, NL>>}

TemplateDocs ==
    {p \o l \o <<NL>> : p \in Prefixes, l \in Lines} \cup Blocks

ShortDocs ==
    Seqs({LA, STAR, BACKTICK, LBRACKET, RBRACKET, SP, NL}, MaxLen)

AtomDocs == {l \o <<NL>> : l \in Spans} \cup Blocks

\* the configurations: (extensions, max_nesting, non-NULL callbacks, span
\* callbacks returning 0)
AllCb0 == [ext |-> {}, nest |-> 16, cb |-> AllCallbacks, ret0 |-> {}]
AllCb == [ext |-> Extensions, nest |-> 16, cb |-> AllCallbacks, ret0 |-> {}]

WideConfigs ==
    {AllCb0, AllCb,
     [AllCb EXCEPT !.ret0 = SpanCallbacks],
     [AllCb EXCEPT !.cb = AllCallbacks \ SpanCallbacks],
     [AllCb EXCEPT !.cb = AllCallbacks \ BlockCallbacks],
     [AllCb EXCEPT !.cb = AllCallbacks \ LowCallbacks],
     [AllCb EXCEPT !.nest = 1],
     [AllCb EXCEPT !.nest = 2]}

NarrowConfigs ==
    {[AllCb EXCEPT !.cb = AllCallbacks \ {c}] : c \in AllCallbacks}
    \cup {[AllCb EXCEPT !.ret0 = {c}] : c \in SpanCallbacks}

\* [x][a] and [a], a link and an image by reference; [a]: u and [a]: v "t"
RefBodies ==
    {<<LBRACKET, Letter.x, RBRACKET, LBRACKET, LA, RBRACKET, NL>>,
     <<BANG, LBRACKET, LA, RBRACKET, NL>>}

RefTargets ==
    {[link |-> <<LU>>, title |-> <<>>],
     [link |-> <<Letter.v>>, title |-> <<Letter.t>>]}

\* the definition line of the label a for the target t
DefLine(t) ==
    <<LBRACKET, LA, RBRACKET, COLON, SP>> \o t.link
    \o (IF t.title = <<>> THEN <<>> ELSE <<SP, DQUOTE>> \o t.title \o <<DQUOTE>>)
    \o <<NL>>

RefDefs == {DefLine(t) : t \in RefTargets}

ReuseDocs ==
    RefBodies \cup RefDefs
    \cup {b \o d : b \in RefBodies, d \in RefDefs}
    \cup {d \o b : b \in RefBodies, d \in RefDefs}
    \cup {d \o e : d \in RefDefs, e \in RefDefs}
    \cup {<<LBRACKET, LA, RBRACKET, LPAREN, LU, RPAREN, NL>>}

\* lines of printable bytes that no configuration below holds active, with
\* the bytes that open a block
MaxTextLen == 3

PlainDocs == Seqs({LA, SP, HASH, DASH, RANGLE, RBRACKET, STAR}, MaxTextLen)

\* a backslash before each byte that some configuration holds active, and
\* before an inactive one; an escaped autolink
EscapeDocs ==
    {<<BACKSLASH, b>> : b \in (ActiveBytes \ {NL}) \cup {LA, HASH}}
    \cup {<<BACKSLASH, NL, LA>>,
          <<BACKSLASH, Letter.w, Letter.w, Letter.w, DOT, LA, DOT, LB>>,
          <<LA, BACKSLASH, ATSIGN, LB, DOT, LA>>}

\* no extension; every extension; every extension and no emphasis
\* callback, which leaves * and _ inactive
TextConfigs ==
    {AllCb0, AllCb,
     [AllCb EXCEPT !.cb = AllCallbacks \ {"emphasis", "double_emphasis",
                                          "triple_emphasis"}]}

\* labels that differ in case only, labels of one bucket chain, and
\* zkbaaa and aaaayi, two labels of one fingerprint
Labels ==
    {<<LA>>, <<65>>, <<LA, LB>>, <<LA, 66>>, <<LB, LA>>,
     <<Letter.z, Letter.k, LB, LA, LA, LA>>,
     <<LA, LA, LA, LA, Letter.y, Letter.i>>,
     <<LA, LA, LA, LA, Letter.y, Letter.j>>}

\* [x][l], a link by the reference l
UseOf(l) == <<LBRACKET, Letter.x, RBRACKET, LBRACKET>> \o l \o <<RBRACKET, NL>>

\* [l]: link
DefOf(l, link) == <<LBRACKET>> \o l \o <<RBRACKET, COLON, SP>> \o link \o <<NL>>

\* a link by reference, then the definitions of two labels
HashDocs ==
    {UseOf(l1) \o DefOf(l2, <<LU>>) \o DefOf(l3, <<Letter.v>>) :
        l1 \in Labels, l2 \in Labels, l3 \in Labels}

\* what stands between the brackets of a link: an autolink of each kind
\* alone, after a word, after a nested link and after a nested image
LinkContents ==
    LET www == <<Letter.w, Letter.w, Letter.w, DOT, LA, DOT, LB>>
        mail == <<LA, ATSIGN, LB, DOT, LA>>
        url == <<Letter.f, Letter.t, Letter.p, COLON, SLASH, SLASH, LA, DOT, LB>>
        autos == {www, mail, url, <<LANGLE, LA, ATSIGN, LB, RANGLE>>,
                  <<LANGLE, LA, LB, COLON, LU, RANGLE>>}
        nested == <<LBRACKET, LA, RBRACKET, LPAREN, LU, RPAREN, SP>>
    IN autos
       \cup {<<Letter.x, SP>> \o a : a \in autos}
       \cup {nested \o a : a \in autos}
       \cup {<<BANG>> \o nested \o a : a \in autos}

\* [content](v), and [content][a] with the definition of a
LinkDocs ==
    {<<LBRACKET>> \o c \o <<RBRACKET, LPAREN, Letter.v, RPAREN, NL>> :
        c \in LinkContents}
    \cup {<<LBRACKET>> \o c \o <<RBRACKET, LBRACKET, LA, RBRACKET, NL>>
              \o DefOf(<<LA>>, <<Letter.v>>) : c \in LinkContents}

\* an e-mail address or a URL that follows a span
RewindDocs ==
    LET mail == <<LB, ATSIGN, Letter.c, DOT, Letter.d, NL>>
        url == <<Letter.f, Letter.t, Letter.p, COLON, SLASH, SLASH, LA, DOT, LB, NL>>
        before == {<<>>, <<LA>>, <<LA, UNDERSCORE>>, <<UNDERSCORE, LA, UNDERSCORE>>,
                   <<STAR, LA, STAR>>, <<STAR, LA, STAR, DASH>>,
                   <<BACKTICK, LA, BACKTICK, DOT>>, <<LA, SP>>,
                   <<LBRACKET, LA, RBRACKET, LPAREN, LU, RPAREN, DOT>>}
    IN {b \o m : b \in before, m \in {mail, url}}

\* an emphasis opened by a star: before its closing star, a star that is
\* escaped, in a code span, or in the text of a link
EmphDocs ==
    LET pre == {<<>>, <<LA>>, <<BACKSLASH>>}
        mid == {<<STAR>>, <<BACKSLASH, STAR>>,
                <<BACKTICK, STAR, BACKTICK>>, <<BACKTICK, STAR>>,
                <<LBRACKET, STAR, RBRACKET, LPAREN, LU, RPAREN>>,
                <<LBRACKET, STAR, RBRACKET, LBRACKET, LA, RBRACKET>>,
                <<LBRACKET, STAR, RBRACKET, LPAREN, LU>>,
                <<LBRACKET, LA, RBRACKET, LPAREN, STAR, RPAREN>>,
                <<LBRACKET, STAR, RBRACKET>>}
        post == {<<>>, <<STAR>>, <<LB, STAR>>, <<SP, STAR>>}
    IN {<<STAR>> \o a \o b \o c \o <<NL>> :
            a \in pre, b \in mid, c \in post}

\* the same with the reference [a] defined
EmphRefDocs == {d \o RefDefA \o <<NL>> : d \in EmphDocs}

MaxTickLen == 5

\* runs of backticks around a letter and a blank
TickDocs == {s \o <<NL>> : s \in Seqs({BACKTICK, LA, SP}, MaxTickLen)}

SpanConfigs == {AllCb0, AllCb, [AllCb EXCEPT !.ret0 = {"codespan"}]}

\* the lines of a fenced block: text, a fence of either character, a
\* longer fence, a fence with a token after it, an empty line
FenceOpeners == {<<BACKTICK, BACKTICK, BACKTICK>>, <<TILDE, TILDE, TILDE>>}

FenceLines ==
    FenceOpeners
    \cup {<<LA>>, <<>>, <<BACKTICK, BACKTICK, BACKTICK, BACKTICK>>,
          <<BACKTICK, BACKTICK, BACKTICK, SP, LB>>,
          <<TILDE, TILDE, TILDE, SP, LB>>}

MaxFenceLines == 2

RECURSIVE JoinLines(_)
JoinLines(ls) ==
    IF ls = <<>> THEN <<>> ELSE ls[1] \o <<NL>> \o JoinLines(Tail(ls))

\* an opening fence and the lines after it
FenceDocs ==
    {o \o <<NL>> \o JoinLines(ls) :
        o \in FenceOpeners, ls \in Seqs(FenceLines, MaxFenceLines)}

\* the same before a reference definition
FenceRefDocs == {d \o RefDefA \o <<NL>> : d \in FenceDocs}

MaxTailLen == 3

\* ftp://a.b/ and what may end it: closing and opening bytes, punctuation
DelimTails ==
    Seqs({LPAREN, RPAREN, RBRACKET, DQUOTE, DOT, COMMA, LA}, MaxTailLen)

DelimBase ==
    <<Letter.f, Letter.t, Letter.p, COLON, SLASH, SLASH, LA, DOT, LB, SLASH>>

DelimDocs ==
    {DelimBase \o t \o <<NL>> : t \in DelimTails}
    \cup {DelimBase \o <<RPAREN, NL>> \o RefDefA \o <<NL>>}

\* the lines of a list: an unordered item, an ordered item, a blank line
\* and an indented line
UItem == <<DASH, SP, LA>>
OItem == <<49, DOT, SP, LB>>

ListLines == {UItem, OItem, <<>>, <<SP, SP, Letter.c>>}

MaxListLines == 3

\* an item and the lines after it
ListDocs ==
    {i \o <<NL>> \o JoinLines(ls) :
        i \in {UItem, OItem}, ls \in Seqs(ListLines, MaxListLines)}
    \cup {UItem \o <<NL>> \o RefDefA \o <<NL>>}

\* a definition, a link, a second definition, a second link
TwiceDocs ==
    {DefOf(l2, <<LU>>) \o UseOf(l1) \o DefOf(l3, <<Letter.v>>) \o UseOf(l2) :
        l1 \in Labels, l2 \in Labels, l3 \in Labels}

MaxColumns == 2
MaxRows == 2
MaxCells == 3

\* the cells of a header: a, b, ...; of a body row: x, y, z, ...
HeaderCells(n) == [j \in 1..n |-> <<LA + j - 1>>]
RowCells(n) == [j \in 1..n |-> <<Letter.x + j - 1>>]

RECURSIVE JoinRows(_)
\* a row of a table: each cell behind a pipe
RECURSIVE RowLine(_)
RowLine(cells) ==
    IF cells = <<>> THEN <<NL>>
    ELSE <<PIPE>> \o cells[1] \o RowLine(Tail(cells))

\* the underline of a column of the alignment al (0, left, right, both)
Underline(al) ==
    <<IF al \in {MKD_TABLE_ALIGN_L, MKD_TABLE_ALIGN_L + MKD_TABLE_ALIGN_R}
      THEN COLON ELSE DASH,
      DASH,
      IF al \in {MKD_TABLE_ALIGN_R, MKD_TABLE_ALIGN_L + MKD_TABLE_ALIGN_R}
      THEN COLON ELSE DASH>>

Aligns == 0..(MKD_TABLE_ALIGN_L + MKD_TABLE_ALIGN_R)

\* the body rows of rows[k] cells each
JoinRows(rows) ==
    IF rows = <<>> THEN <<>>
    ELSE RowLine(RowCells(rows[1])) \o JoinRows(Tail(rows))

\* a table of the column alignments als whose body rows have rows[k] cells
TableDoc(als, rows) ==
    RowLine(HeaderCells(Len(als)))
    \o RowLine([j \in 1..Len(als) |-> Underline(als[j])])
    \o JoinRows(rows)

TableShapes ==
    {<<als, rows>> :
        als \in UNION {[1..n -> Aligns] : n \in 1..MaxColumns},
        rows \in Seqs(1..MaxCells, MaxRows)}

TableDocs ==
    {TableDoc(t[1], t[2]) : t \in TableShapes}
    \cup {TableDoc(<<0>>, <<1>>) \o <<NL>> \o RefDefA \o <<NL>>}

TableConfigs == {AllCb, [AllCb EXCEPT !.nest = 2]}

\* every extension; the autolink extension alone
LinkConfigs == {AllCb, [AllCb EXCEPT !.ext = {"AUTOLINK"}]}

IsWide(m) ==
    \E c \in WideConfigs :
        m.ext = c.ext /\ m.max_nesting = c.nest /\ m.cb = c.cb /\ m.ret0 = c.ret0

Docs(mode_, m) ==
    CASE mode_ = "pre" -> PreDocs
      [] mode_ = "parse" -> IF IsWide(m) THEN TemplateDocs \cup ShortDocs
                            ELSE AtomDocs
      [] mode_ = "reuse" -> ReuseDocs
      [] mode_ = "text" -> PlainDocs \cup EscapeDocs \cup RefDefs
      [] mode_ = "buf" -> {}
      [] mode_ = "hash" -> HashDocs \cup TwiceDocs
      [] mode_ = "link" -> LinkDocs \cup RewindDocs
      [] mode_ = "fence" -> FenceDocs \cup FenceRefDocs
      [] mode_ = "delim" -> DelimDocs
      [] mode_ = "list" -> ListDocs
      [] mode_ = "table" -> TableDocs
      [] mode_ = "span" -> EmphDocs \cup EmphRefDocs \cup TickDocs

Configs(mode_) ==
    CASE mode_ = "pre" -> {AllCb0}
      [] mode_ = "parse" -> WideConfigs \cup NarrowConfigs
      [] mode_ = "reuse" -> {AllCb}
      [] mode_ = "text" -> TextConfigs
      [] mode_ = "buf" -> {AllCb0}
      [] mode_ = "hash" -> {AllCb0}
      [] mode_ = "link" -> LinkConfigs
      [] mode_ = "span" -> SpanConfigs
      [] mode_ = "table" -> TableConfigs
      [] mode_ = "list" -> {AllCb}
      [] mode_ = "delim" -> {AllCb}
      [] mode_ = "fence" -> {AllCb}

RendersOf(mode_) == IF mode_ = "reuse" THEN MaxRenders ELSE 1

InitIn(modes) ==
    /\ mode \in modes
    /\ md \in {sd_markdown_new(c.ext, c.nest, c.cb, c.ret0) : c \in Configs(mode)}
    /\ document = <<>>
    /\ text = <<>>
    /\ beg = 0
    /\ ob = <<>>
    /\ trace = <<>>
    /\ pc = "idle"
    /\ heap = <<>>
    /\ renders = 0
    /\ first = NoRender
    /\ ghost = [leak |-> FALSE, stall |-> FALSE, deep |-> 0, flat |-> FALSE]
    /\ buf = NoBuf
    /\ called = NoCall

Render ==
    /\ renders < RendersOf(mode)
    /\ \E doc \in Docs(mode, md) : RenderBegin(doc)

Next == Render \/ RefLine \/ CopyLine \/ SecondPass \/ CleanUp

SpecPre == InitIn({"pre"}) /\ [][Next]_vars

SpecParse == InitIn({"parse"}) /\ [][Next]_vars

SpecReuse == InitIn({"reuse"}) /\ [][Next]_vars

SpecText == InitIn({"text"}) /\ [][Next]_vars

SpecHash == InitIn({"hash"}) /\ [][Next]_vars

SpecLink == InitIn({"link"}) /\ [][Next]_vars

SpecSpan == InitIn({"span"}) /\ [][Next]_vars

SpecTable == InitIn({"table"}) /\ [][Next]_vars

SpecList == InitIn({"list"}) /\ [][Next]_vars

SpecDelim == InitIn({"delim"}) /\ [][Next]_vars

SpecFence == InitIn({"fence"}) /\ [][Next]_vars

(***************************************************************************)
(* Calls on one struct sd_buf.  A call that reallocates may find realloc   *)
(* failing (ok = FALSE).                                                   *)
(***************************************************************************)
MaxCalls == 4

BufUnits == {1, 3, 64}

GrowSizes == {0, 1, 4, BUFFER_MAX_ALLOC_SIZE, BUFFER_MAX_ALLOC_SIZE + 1}

\* the data of sd_bufput: up to two bytes, or 16 MiB and one byte more
PutData ==
    {RunsOf(s) : s \in Seqs({LA, 0}, 2)}
    \cup {Run(LA, BUFFER_MAX_ALLOC_SIZE), Run(LA, BUFFER_MAX_ALLOC_SIZE + 1)}

PutStrings == Seqs({LA, LB}, 2)

SlurpLens == {0, 1, 2, BUFFER_MAX_ALLOC_SIZE}

Called(op, arg, ret) ==
    [op |-> op, arg |-> arg, ret |-> ret, calls |-> called.calls + 1]

BufNew ==
    /\ buf = NoBuf
    /\ \E unit \in BufUnits : buf' = sd_bufnew(unit)
    /\ called' = [NoCall EXCEPT !.op = "sd_bufnew"]
    /\ UNCHANGED <<mdvars, mode>>

MayCall == buf # NoBuf /\ called.calls < MaxCalls

BufGrow ==
    /\ MayCall
    /\ \E neosz \in GrowSizes, ok \in BOOLEAN :
          \E r \in {sd_bufgrow(buf, neosz, ok)} :
             /\ buf' = r.buf
             /\ called' = Called("sd_bufgrow", neosz, r.ret)
    /\ UNCHANGED <<mdvars, mode>>

BufPut ==
    /\ MayCall
    /\ \E data \in PutData, ok \in BOOLEAN :
          \E r \in {sd_bufput(buf, data, ok)} :
             /\ buf' = r.buf
             /\ called' = Called("sd_bufput", RunLen(data), r.ret)
    /\ UNCHANGED <<mdvars, mode>>

BufPuts ==
    /\ MayCall
    /\ \E str \in PutStrings, ok \in BOOLEAN :
          \E r \in {sd_bufputs(buf, str, ok)} :
             /\ buf' = r.buf
             /\ called' = Called("sd_bufputs", Len(str), r.ret)
    /\ UNCHANGED <<mdvars, mode>>

BufPutc ==
    /\ MayCall
    /\ \E c \in {LA, LB, 0}, ok \in BOOLEAN :
          \E r \in {sd_bufputc(buf, c, ok)} :
             /\ buf' = r.buf
             /\ called' = Called("sd_bufputc", 1, r.ret)
    /\ UNCHANGED <<mdvars, mode>>

BufCstr ==
    /\ MayCall
    /\ \E ok \in BOOLEAN :
          \E r \in {sd_bufcstr(buf, ok)} :
             /\ buf' = r.buf
             /\ called' = Called("sd_bufcstr", 0, r.ret)
    /\ UNCHANGED <<mdvars, mode>>

BufSlurp ==
    /\ MayCall
    /\ \E len \in SlurpLens :
          /\ buf' = sd_bufslurp(buf, len)
          /\ called' = Called("sd_bufslurp", len, 0)
    /\ UNCHANGED <<mdvars, mode>>

BufReset ==
    /\ MayCall
    /\ buf' = sd_bufreset(buf)
    /\ called' = Called("sd_bufreset", 0, 0)
    /\ UNCHANGED <<mdvars, mode>>

\* sd_bufprefix(buf, str) for the C string str; arg is the index of str
\* in BufPrefixes
BufPrefixes == <<<<>>, <<LA>>, <<LB>>, <<LA, LA>>, <<LA, LB>>, <<LB, LA>>>>

BufPrefix ==
    /\ MayCall
    /\ \E k \in DOMAIN BufPrefixes :
          called' = Called("sd_bufprefix", k, sd_bufprefix(buf, BufPrefixes[k]))
    /\ UNCHANGED <<buf, mdvars, mode>>

BufNext ==
    \/ BufNew \/ BufGrow \/ BufPut \/ BufPuts \/ BufPutc \/ BufCstr
    \/ BufSlurp \/ BufReset \/ BufPrefix

SpecBuf == InitIn({"buf"}) /\ [][BufNext]_vars


(***************************************************************************)
(* What the properties read off a state.                                   *)
(***************************************************************************)
Count(seq, S) == Cardinality({k \in 1..Len(seq) : seq[k] \in S})

\* the callback name was invoked by the render
InTrace(name) == \E k \in 1..Len(trace) : trace[k] = name

\* the output without the tag and separator bytes of the renderer: the
\* text the callbacks were given
PlainBytes(out) == SelectSeq(out, LAMBDA x : x < 128)

\* the document without its final newlines
RECURSIVE Body(_)
Body(doc) ==
    IF doc # <<>> /\ doc[Len(doc)] = NL THEN Body(SubSeq(doc, 1, Len(doc) - 1))
    ELSE doc

StartsWithBom(doc) == Len(doc) >= 3 /\ SubSeq(doc, 1, 3) = UTF8_BOM

FirstPassDone == pc = "first_pass" /\ beg >= Len(document)

\* the context with every callback of the table set
WithAllCallbacks(m) == [m EXCEPT !.cb = AllCallbacks]

\* md has every callback but c
NullOnly(c) == md.cb = AllCallbacks \ {c}

(***************************************************************************)
(* The scratch-buffer pools.                                               *)
(***************************************************************************)
\* C1: every parse_* and char_* recognizer returns with the active counts
\* of the block pool and of the span pool as they were on entry, for every
\* input and configuration, so both counts are 0 when the render returns.
C1_PoolsBalanced ==
    /\ ~ghost.leak
    /\ md.pool.blk.size = 0
    /\ md.pool.spn.size = 0

\* a link in a quote whose callback returned 0: buffers of both pools were
\* taken and char_link left through its cleanup
C1_Witness ==
    /\ pc = "cleanup"
    /\ md.ret0 = SpanCallbacks
    /\ document = <<RANGLE, SP, LBRACKET, LA, RBRACKET, LPAREN, LU, RPAREN, NL>>
    /\ InTrace("link")
    /\ md.pool.spn.cached >= 2
    /\ md.pool.blk.cached >= 1
    /\ md.pool.spn.size = 0
    /\ md.pool.blk.size = 0

(***************************************************************************)
(* References.                                                             *)
(***************************************************************************)
\* C2: every definition of the document is in the reference table before
\* the first callback of the second pass, so a link or image by reference
\* resolves to the same target and gives the same output whether its
\* definition line stands before or after it.
C2_OrderIndependent ==
    /\ pc = "first_pass" => (trace = <<>> /\ ob = <<>>)
    /\ \A b \in RefBodies : \A t \in RefTargets :
          document \in {b \o DefLine(t), DefLine(t) \o b} =>
              /\ FirstPassDone =>
                    /\ find_link_ref(md.refs, <<LA>>).link = t.link
                    /\ find_link_ref(md.refs, <<LA>>).title = t.title
              /\ pc = "cleanup" =>
                    /\ InTrace("link") \/ InTrace("image")
                    /\ ob = sd_markdown_render(md, b \o DefLine(t)).ob
                    /\ ob = sd_markdown_render(md, DefLine(t) \o b).ob
                    /\ trace = sd_markdown_render(md, DefLine(t) \o b).trace

\* the link [x][a] rendered with its definition on the line after it
C2_Witness ==
    /\ pc = "cleanup"
    /\ document = <<LBRACKET, Letter.x, RBRACKET, LBRACKET, LA, RBRACKET, NL>>
                  \o DefLine([link |-> <<Letter.v>>, title |-> <<Letter.t>>])
    /\ InTrace("link")

(***************************************************************************)
(* Termination.                                                            *)
(***************************************************************************)
\* C3: every iteration of the first pass's line loop, of parse_block's
\* loop and of parse_inline's loop advances its cursor by at least one
\* byte (after a recognizer that returned 0, parse_inline advances one
\* byte), and the recursion stays under the nesting bound: no pool ever
\* holds more buffers than max_nesting and the buffers of one recognizer.
C3_EveryLoopAdvances ==
    /\ [](~ghost.stall)
    /\ [](md.pool.spn.cached <= md.max_nesting + 4
          /\ md.pool.blk.cached <= md.max_nesting + 1)
    /\ [][(pc = "first_pass" /\ pc' = "first_pass") => beg' > beg]_vars

\* an emphasis left open: char_emphasis returned 0 and the star went out
\* as text
C3_Witness ==
    /\ pc = "cleanup"
    /\ md.cb = AllCallbacks
    /\ md.ret0 = {}
    /\ document = <<STAR, LA, NL>>
    /\ PlainBytes(ob) = <<STAR, LA>>
    /\ ~ghost.stall

(***************************************************************************)
(* Reuse of a context.                                                     *)
(***************************************************************************)
\* C4: a render of the document of the first render on the same context
\* gives the callbacks and the output of the first render, whatever was
\* rendered on the context in between.
C4_SameRenderOnReuse ==
    (pc = "cleanup" /\ renders >= 1 /\ document = first.document) =>
        (ob = first.ob /\ trace = first.trace)

\* the third render repeats the first, a link by reference without its
\* definition; the render in between defined the label
C4_Witness ==
    /\ pc = "cleanup"
    /\ renders = 2
    /\ document = first.document
    /\ document \in RefBodies
    /\ Len(heap) = 1

\* C5: the reference table is cleared at the start of each render: it
\* holds records of the render in progress only, a label defined only in
\* a document rendered before is not found; and every link_ref record is
\* freed exactly once, at the end of the render that created it.
C5_RefsOfThisRenderOnly ==
    /\ \A a \in 1..Len(heap) : heap[a] <= 1
    /\ pc = "idle" => \A a \in 1..Len(heap) : heap[a] = 1
    /\ pc \in {"first_pass", "cleanup"} =>
          \A b \in 0..(REF_TABLE_SIZE - 1) : \A k \in 1..Len(md.refs[b]) :
              heap[md.refs[b][k].addr] = 0
    /\ (pc = "cleanup" /\ document \in RefBodies) =>
          (~InTrace("link") /\ ~InTrace("image"))

\* the label was defined by the first render and is looked up by the second
C5_Witness ==
    /\ pc = "cleanup"
    /\ renders = 1
    /\ first.document \in RefDefs
    /\ document = <<LBRACKET, Letter.x, RBRACKET, LBRACKET, LA, RBRACKET, NL>>
    /\ heap = <<1>>
    /\ ~InTrace("link")

(***************************************************************************)
(* Preprocessing: BOM, tabs, line endings.                                 *)
(***************************************************************************)
\* C6 as stated: for every document D, the render of EF BB BF followed by D
\* gives the output and the callbacks of the render of D.
C6_BomPrefixAnyDocument ==
    (pc = "cleanup" /\ StartsWithBom(document)) =>
        LET r == sd_markdown_render(md, SubSeq(document, 4, Len(document)))
        IN ob = r.ob /\ trace = r.trace

\* C6 amended: for every document D that does not itself begin with
\* EF BB BF, the render of EF BB BF followed by D gives the output and the
\* callbacks of the render of D; and no BOM byte at another offset than 0
\* is removed from the staged text.
C6_BomPrefix ==
    /\ (pc = "cleanup" /\ StartsWithBom(document)
          /\ ~StartsWithBom(SubSeq(document, 4, Len(document)))) =>
        LET r == sd_markdown_render(md, SubSeq(document, 4, Len(document)))
        IN ob = r.ob /\ trace = r.trace
    /\ (FirstPassDone /\ md.refs = NoRefs) =>
        Count(text, {BOM0, BOM1, BOM2})
            = Count(document, {BOM0, BOM1, BOM2})
                - (IF StartsWithBom(document) THEN 3 ELSE 0)

\* a BOM at offset 0 and another one on the second line
C6_Witness ==
    /\ pc = "cleanup"
    /\ document = UTF8_BOM \o <<LA, NL>> \o UTF8_BOM \o <<LA>>
    /\ text = <<LA, NL>> \o UTF8_BOM \o <<LA>>

\* the column after the first k bytes of the line, a tab at column c
\* taking 4 - (c mod 4) columns
RECURSIVE Col(_, _)
Col(line, k) ==
    IF k = 0 THEN 0
    ELSE LET c == Col(line, k - 1)
         IN IF line[k] = TAB THEN c + (4 - (c % 4)) ELSE c + 1

TabLaw(line, out) ==
    /\ Len(out) = Col(line, Len(line))
    /\ \A k \in 1..Len(line) :
          IF line[k] = TAB
          THEN /\ Col(line, k) % 4 = 0
               /\ \A j \in (Col(line, k - 1) + 1)..Col(line, k) : out[j] = SP
          ELSE out[Col(line, k)] = line[k]

\* C7: every line copied to the staged text has each tab at column c
\* replaced by 4 - (c mod 4) spaces, the next byte starting at a multiple
\* of 4; and the staged text holds no tab.
C7_TabExpansion ==
    /\ [](Count(text, {TAB}) = 0)
    /\ [][(pc = "first_pass" /\ pc' = "first_pass" /\ md' = md) =>
            LET end == SkipTo(document, beg, Len(document), {NL, CR})
                line == Sub(document, beg, end)
                body == SubSeq(text', Len(text) + 1,
                               Len(text) + Col(line, Len(line)))
                rest == SubSeq(text', Len(text) + Col(line, Len(line)) + 1,
                               Len(text'))
            IN /\ SubSeq(text', 1, Len(text)) = text
               /\ TabLaw(line, body)
               /\ Count(rest, {NL}) = Len(rest)]_vars

C7_Witness ==
    /\ FirstPassDone
    /\ document = <<LA, TAB, TAB, LA>>
    /\ text = <<LA, SP, SP, SP, SP, SP, SP, SP, LA>>

\* the line terminators of a document: every \n (a \r before it belongs to
\* it) and every \r not followed by \n
Terminators(doc) ==
    Cardinality({k \in 1..Len(doc) :
                    \/ doc[k] = NL
                    \/ doc[k] = CR /\ (k = Len(doc) \/ doc[k + 1] # NL)})

\* C8: each line terminator of the input (\r\n, a lone \r, a lone \n; also
\* a lone \r that ends the document or precedes another \r) yields exactly
\* one \n in the staged text, which holds no \r.
C8_OneNewlinePerTerminator ==
    (FirstPassDone /\ md.refs = NoRefs) =>
        /\ Count(text, {NL}) = Terminators(document)
        /\ Count(text, {CR}) = 0

(***************************************************************************)
(* Callbacks that return 0 and callbacks that are NULL.                    *)
(***************************************************************************)
\* C9 as stated: when a span callback returns 0 the recognizer consumes
\* nothing and the source bytes of the span reach the output as text, none
\* removed: the text of a paragraph of one span is its source line.
C9_ZeroReturnVerbatim ==
    \A l \in Spans :
        (pc = "cleanup" /\ document = l \o <<NL>>
           /\ \E c \in md.ret0 : InTrace(c)) =>
            PlainBytes(ob) = l

\* the document that shows the construct of each callback
ConstructOf ==
    [paragraph |-> <<LA, NL>>,
     header |-> <<HASH, SP, LA, SP, HASH, NL>>,
     hrule |-> <<DASH, DASH, DASH, NL>>,
     blockcode |-> <<SP, SP, SP, SP, LA, NL, SP, SP, SP, SP, LB, NL>>,
     blockquote |-> <<RANGLE, SP, LA, NL, RANGLE, SP, LB, NL>>,
     blockhtml |-> <<LANGLE, Letter.p, RANGLE, NL, LA, NL,
                     LANGLE, SLASH, Letter.p, RANGLE, NL, NL>>,
     list |-> <<DASH, SP, LA, NL, DASH, SP, LB, NL>>,
     listitem |-> <<DASH, SP, LA, NL, DASH, SP, LB, NL>>,
     table |-> <<PIPE, LA, PIPE, NL, PIPE, COLON, DASH, COLON, PIPE, NL>>,
     table_row |-> <<PIPE, LA, PIPE, NL, PIPE, COLON, DASH, COLON, PIPE, NL>>,
     table_cell |-> <<PIPE, LA, PIPE, NL, PIPE, COLON, DASH, COLON, PIPE, NL>>,
     autolink |-> <<LANGLE, LA, LB, COLON, LU, RANGLE, NL>>,
     codespan |-> <<BACKTICK, LA, BACKTICK, NL>>,
     double_emphasis |-> <<STAR, STAR, LA, STAR, STAR, NL>>,
     emphasis |-> <<STAR, LA, STAR, NL>>,
     image |-> <<BANG, LBRACKET, LA, RBRACKET, LPAREN, LU, RPAREN, NL>>,
     linebreak |-> <<LA, SP, SP, NL, LB, NL>>,
     link |-> <<LBRACKET, LA, RBRACKET, LPAREN, LU, RPAREN, NL>>,
     raw_html_tag |-> <<LANGLE, LB, RANGLE, NL>>,
     triple_emphasis |-> <<STAR, STAR, STAR, LA, STAR, STAR, STAR, NL>>,
     strikethrough |-> <<TILDE, TILDE, LA, TILDE, TILDE, NL>>,
     superscript |-> <<LA, CARET, LB, NL>>,
     entity |-> <<AMP, LA, SEMI, NL>>,
     normal_text |-> <<LA, NL>>]

Retrievable(t) ==
    LET ref == find_link_ref(md.refs, <<LA>>)
    IN /\ ref # NullRef
       /\ ref.link = t.link
       /\ ref.title = t.title
       /\ heap[ref.addr] = 0

\* C12 as stated: a document that is one definition line invokes
\* doc_header and doc_footer only, and once the render has returned the
\* label is still retrievable from the table of the context.
C12_RetrievableAfterRender ==
    \A t \in RefTargets :
        (pc = "idle" /\ renders = 1 /\ document = DefLine(t)) =>
            /\ trace = <<"doc_header", "doc_footer">>
            /\ Retrievable(t)

\* C12 amended: a document that is one definition line invokes doc_header
\* and doc_footer only, of the line only its newline is staged and
\* nothing else reaches the output; the label is
\* retrievable as (url, title) from the end of the first pass until the
\* render frees its records, and once the render has returned the record
\* of the label has been freed.
C12_DefinitionConsumed ==
    \A t \in RefTargets :
        (document = DefLine(t) /\ renders = (IF pc = "idle" THEN 1 ELSE 0)) =>
            /\ (FirstPassDone \/ pc = "cleanup") => Retrievable(t)
            /\ FirstPassDone => text = <<NL>>
            /\ pc = "cleanup" =>
                  /\ trace = <<"doc_header", "doc_footer">>
                  /\ ob = Emit("doc_header", <<>>) \o Emit("doc_footer", <<>>)
            /\ pc = "idle" =>
                  LET ref == find_link_ref(md.refs, <<LA>>)
                  IN ref # NullRef /\ heap[ref.addr] = 1

\* [a]: v "t" was rendered and the render has returned
C12_Witness ==
    /\ pc = "idle"
    /\ renders = 1
    /\ document = <<LBRACKET, LA, RBRACKET, COLON, SP, Letter.v, SP, DQUOTE,
                    Letter.t, DQUOTE, NL>>
    /\ trace = <<"doc_header", "doc_footer">>
    /\ heap = <<1>>

\* every byte of the document is printable ASCII and inactive for md
Inactive(doc) ==
    \A k \in 1..Len(doc) :
        doc[k] \in 32..126 /\ active_char(md, doc[k]) = "NONE"

BlockOpeners == {SP, HASH, DASH, STAR, RANGLE}

C13_EscapeOfActiveByte ==
    \A b \in ActiveSet(md) :
        (pc = "cleanup"
           /\ document = (IF b = NL THEN <<BACKSLASH, NL, LA>>
                          ELSE <<BACKSLASH, b>>)) =>
            /\ PlainBytes(ob) = Tail(document)
            /\ \A k \in 1..Len(trace) : trace[k] \notin SpanCallbacks

(***************************************************************************)
(* The byte buffer.                                                        *)
(***************************************************************************)
\* the step is a call of op on the buffer
Calls(op) == called'.calls # called.calls /\ called'.op = op

Appends == {"sd_bufput", "sd_bufputs", "sd_bufputc"}

\* C14: after any sequence of sd_bufnew, sd_bufgrow, sd_bufput,
\* sd_bufputs, sd_bufputc, sd_bufcstr, sd_bufslurp and sd_bufreset on a
\* buffer with unit > 0, size <= asize and asize is a multiple of unit;
\* sd_bufcstr never changes size (nor the bytes); sd_bufslurp(n) leaves
\* exactly the bytes after the first min(n, size).
C14_BufferInvariant ==
    /\ [](buf.unit > 0 =>
            /\ SizeOf(buf) <= buf.asize
            /\ buf.asize % buf.unit = 0)
    /\ [][Calls("sd_bufcstr") => buf'.data = buf.data]_vars
    /\ [][Calls("sd_bufslurp") =>
            buf'.data = RunDrop(buf.data, Min({called'.arg, SizeOf(buf)}))]_vars

\* the bytes a and 0 were put with unit 3 and sd_bufslurp(1) left the 0
C14_Witness ==
    /\ called.op = "sd_bufslurp"
    /\ called.arg = 1
    /\ buf.unit = 3
    /\ buf.asize = 3
    /\ buf.data = Run(0, 1)
    /\ buf.nul

\* C15: sd_bufgrow asked for more than 16 MiB, or finding realloc failing,
\* returns BUF_ENOMEM and leaves data, size and asize as they were; an
\* sd_bufput, sd_bufputs or sd_bufputc whose growth is refused leaves the
\* size and the bytes as they were; an append after a refusal that fits
\* in the allocation succeeds.
C15_RefusedGrowthIsNoOp ==
    /\ []((called.op = "sd_bufgrow" /\ called.arg > BUFFER_MAX_ALLOC_SIZE) =>
             called.ret = BUF_ENOMEM)
    /\ [][(\E op \in Appends \cup {"sd_bufgrow"} : Calls(op))
            /\ called'.ret = BUF_ENOMEM => buf' = buf]_vars
    /\ [][(\E op \in Appends : Calls(op))
            /\ called.ret = BUF_ENOMEM
            /\ SizeOf(buf) + called'.arg <= buf.asize =>
                /\ called'.ret = BUF_OK
                /\ SizeOf(buf') = SizeOf(buf) + called'.arg
                /\ buf'.data = RunCat(buf.data,
                                      RunDrop(buf'.data, SizeOf(buf)))]_vars

\* one byte is in the buffer and the put of 16 MiB and a byte was refused
C15_Witness ==
    /\ called.op = "sd_bufput"
    /\ called.arg = BUFFER_MAX_ALLOC_SIZE + 1
    /\ called.ret = BUF_ENOMEM
    /\ buf.data = Run(LA, 1)
    /\ buf.asize = 64

\* the first Len(prefix) bytes of the buffer are those of prefix
HasPrefix(b, prefix) ==
    /\ SizeOf(b) >= Len(prefix)
    /\ \A i \in 0..(Len(prefix) - 1) : RunAt(b.data, i) = prefix[i + 1]

\* the first index where the buffer and prefix differ, both having a byte
FirstDiff(b, prefix) ==
    Min({i \in 0..(Min({SizeOf(b), Len(prefix)}) - 1) :
            RunAt(b.data, i) # prefix[i + 1]})

\* C16: sd_bufprefix(buf, s) returns 0 if and only if the first |s| bytes
\* of buf are s, else a nonzero value with the sign of the first differing
\* byte; a buffer shorter than s does not compare equal.
C16_PrefixIffEqual ==
    called.op = "sd_bufprefix" =>
        LET s == BufPrefixes[called.arg]
        IN /\ called.ret = 0 <=> HasPrefix(buf, s)
           /\ (called.ret # 0) =>
                 (called.ret > 0 <=> RunAt(buf.data, FirstDiff(buf, s))
                                        > s[FirstDiff(buf, s) + 1])

(***************************************************************************)
(* The fingerprints of the labels.                                         *)
(***************************************************************************)
\* the values the 32-bit unsigned arithmetic of hash_link_ref gives for
\* the labels, as <<high half, low half>>: a and A 97, ab and aB 6363201,
\* ba 6428799, zkbaaa and aaaayi 4105367216, aaaayj 4105367217
Fingerprint(l) ==
    LET low == Lower(l)
    IN CASE low = <<LA>> -> <<0, 97>>
         [] low = <<LA, LB>> -> <<97, 6209>>
         [] low = <<LB, LA>> -> <<98, 6271>>
         [] low = <<Letter.z, Letter.k, LB, LA, LA, LA>> -> <<62642, 61104>>
         [] low = <<LA, LA, LA, LA, Letter.y, Letter.i>> -> <<62642, 61104>>
         [] low = <<LA, LA, LA, LA, Letter.y, Letter.j>> -> <<62642, 61105>>

\* the labels of the document UseOf(l1) DefOf(l2) DefOf(l3)
IsHashDoc(l1, l2, l3) ==
    document = UseOf(l1) \o DefOf(l2, <<LU>>) \o DefOf(l3, <<Letter.v>>)

\* C17: find_link_ref returns a record if and only if some inserted
\* definition has the 32-bit fingerprint of the label, the fingerprint
\* being lower(b) + (hash << 6) + (hash << 16) - hash folded over the
\* bytes modulo 2^32; labels that differ in the case of letters only
\* resolve to the same definition, and so do two different labels of
\* equal fingerprints.
C17_FingerprintOnly ==
    \A l1 \in Labels, l2 \in Labels, l3 \in Labels :
        (IsHashDoc(l1, l2, l3) /\ (FirstPassDone \/ pc = "cleanup")) =>
            LET ref == find_link_ref(md.refs, l1)
                same2 == Fingerprint(l1) = Fingerprint(l2)
                same3 == Fingerprint(l1) = Fingerprint(l3)
            IN /\ hash_link_ref(l1) = Fingerprint(l1)
               /\ ref # NullRef <=> (same2 \/ same3)
               /\ ref # NullRef => ref.id = Fingerprint(l1)
               /\ same3 => ref.link = <<Letter.v>>
               /\ (same2 /\ ~same3) => ref.link = <<LU>>
               /\ pc = "cleanup" => (InTrace("link") <=> (same2 \/ same3))

\* [x][zkbaaa] is a link to the target defined for aaaayi
C17_Witness ==
    /\ pc = "cleanup"
    /\ IsHashDoc(<<Letter.z, Letter.k, LB, LA, LA, LA>>,
                 <<LA, LA, LA, LA, Letter.y, Letter.i>>,
                 <<LA, LA, LA, LA, Letter.y, Letter.j>>)
    /\ InTrace("link")
    /\ ob = Emit("doc_header", <<>>)
            \o Emit("paragraph", <<Emit("link", <<<<LU>>, NULLBUF,
                                                  <<Letter.x>>>>)>>)
            \o Emit("doc_footer", <<>>)

(***************************************************************************)
(* Autolinks: inside the text of a link, and after a span.                 *)
(***************************************************************************)
\* how many times the callback name was invoked
Invoked(name) == Cardinality({k \in 1..Len(trace) : trace[k] = name})

\* the links a document spells out with brackets: each ]( and ][, less
\* the images
BracketLinks(doc) ==
    Cardinality({k \in 1..(Len(doc) - 1) :
                    doc[k] = RBRACKET /\ doc[k + 1] \in {LPAREN, LBRACKET}})
    - Cardinality({k \in 1..(Len(doc) - 1) :
                      doc[k] = BANG /\ doc[k + 1] = LBRACKET})

\* C18: while the text of a link is parsed, also after a link or an image
\* nested in it, no autolink recognizer emits anything: the autolink
\* callback is not invoked and the link callback is invoked for the links
\* written with brackets only; in_link_body is 0 when char_link has
\* returned.
C18_NoAutolinkInLinkText ==
    (pc = "cleanup" /\ document \in LinkDocs) =>
        /\ ~InTrace("autolink")
        /\ Invoked("link") = BracketLinks(document)
        /\ md.in_link_body = 0

\* how many times the renderer wrote the opening byte of the callback name
Written(name) == Cardinality({k \in 1..Len(ob) : ob[k] = 128 + CbIndex[name]})

\* C19: the rewind of the e-mail and URL autolink recognizers covers only
\* bytes of the run of text emitted just before the trigger byte: what a
\* span callback wrote before it is not removed, every span callback that
\* was invoked has its output in the result.
C19_RewindWithinRun ==
    (pc = "cleanup" /\ document \in RewindDocs) =>
        \A c \in SpanCallbacks : Written(c) = Invoked(c)

(***************************************************************************)
(* The nesting limit.                                                      *)
(***************************************************************************)
\* the line l behind k quote markers
Quoted(k, l) ==
    [i \in 1..(2 * k) |-> IF i % 2 = 1 THEN RANGLE ELSE SP] \o l \o <<NL>>

QuoteDepths == 0..2

\* C20: parse_block and parse_inline entered with more than max_nesting
\* active buffers return without a callback and without output, and the
\* recognizers around them still emit their callbacks with the empty
\* result.  Behind k quote markers, with all callbacks set: the quotes down
\* to level max_nesting + 1 are emitted, the paragraph when k <=
\* max_nesting, its text when k + 1 <= max_nesting, and the text of an
\* emphasis when k + 2 <= max_nesting; every callback invoked has its
\* output in the result, and the pools of work buffers are empty
\* afterwards.
C20_NestingBailOut ==
    (pc = "cleanup" /\ mode = "parse" /\ IsWide(md)) =>
        LET n == md.max_nesting
            quotes(k) == IF k < n + 1 THEN k ELSE n + 1
            one(cond) == IF cond THEN 1 ELSE 0
        IN /\ md.pool.spn.size = 0 /\ md.pool.blk.size = 0
           /\ \A k \in QuoteDepths :
                /\ (document = Quoted(k, <<LA>>) /\ md.cb = AllCallbacks) =>
                      /\ Invoked("blockquote") = quotes(k)
                      /\ Invoked("paragraph") = one(k <= n)
                      /\ Invoked("normal_text") = one(k + 1 <= n)
                      /\ PlainBytes(ob) = IF k + 1 <= n THEN <<LA>> ELSE <<>>
                      /\ \A c \in AllCallbacks \ {"normal_text"} :
                            Written(c) = Invoked(c)
                /\ (document = Quoted(k, <<STAR, LA, STAR>>)
                    /\ md.cb = AllCallbacks /\ md.ret0 = {}) =>
                      /\ Invoked("blockquote") = quotes(k)
                      /\ Invoked("paragraph") = one(k <= n)
                      /\ Invoked("emphasis") = one(k + 1 <= n)
                      \* the empty run before the *, and the a
                      /\ Invoked("normal_text")
                            = one(k + 1 <= n) + one(k + 2 <= n)
                      /\ PlainBytes(ob) = IF k + 2 <= n THEN <<LA>> ELSE <<>>
                      /\ \A c \in AllCallbacks \ {"normal_text"} :
                            Written(c) = Invoked(c)

\* > > a with max_nesting 1: two quotes, the inner one empty
C20_Witness ==
    /\ pc = "cleanup"
    /\ md.max_nesting = 1
    /\ document = Quoted(2, <<LA>>)
    /\ trace = <<"doc_header", "blockquote", "blockquote", "doc_footer">>
    /\ ob = Emit("doc_header", <<>>)
            \o Emit("blockquote", <<Emit("blockquote", <<<<>>>>)>>)
            \o Emit("doc_footer", <<>>)

(***************************************************************************)
(* The closing delimiter of an emphasis, and of a code span.               *)
(***************************************************************************)
\* the bytes after the star that opens the document, up to the newline
EmphContent(doc) == SubSeq(doc, 2, Len(doc) - 1)

\* in s, the byte at i follows a backslash
AfterBackslash(s, i) == i >= 1 /\ By(s, i - 1) = BACKSLASH

\* in s, the byte at i lies in a code span of one backtick a side
InCodeSpan(s, i) ==
    \E j \in 0..(i - 1), k \in (i + 1)..(Len(s) - 1) :
        /\ By(s, j) = BACKTICK /\ By(s, k) = BACKTICK
        /\ ~AfterBackslash(s, j)
        /\ \A x \in 0..(k - 1) : x # j => By(s, x) # BACKTICK

\* in s, the byte at i lies between [ and ], and ( ) or [ ] follows
InLinkText(s, i) ==
    \E j \in 0..(i - 1), k \in (i + 1)..(Len(s) - 3) :
        /\ By(s, j) = LBRACKET /\ By(s, k) = RBRACKET
        /\ ~AfterBackslash(s, j)
        /\ \A x \in (j + 1)..(k - 1) : By(s, x) # RBRACKET
        /\ \/ By(s, k + 1) = LPAREN
              /\ \E e \in (k + 2)..(Len(s) - 1) : By(s, e) = RPAREN
           \/ By(s, k + 1) = LBRACKET
              /\ \E e \in (k + 2)..(Len(s) - 1) : By(s, e) = RBRACKET

\* C21: the position find_emph_char returns for the closing star is not
\* that of a star that follows a backslash, nor of one inside a complete
\* code span or inside the complete text of a link.
C21_ClosingDelimiterSkips ==
    (pc = "cleanup" /\ document \in EmphDocs) =>
        LET s == EmphContent(document)
            r == find_emph_char(s, 0, Len(s), STAR)
        IN r # 0 =>
            /\ By(s, r) = STAR
            /\ ~AfterBackslash(s, r)
            /\ ~InCodeSpan(s, r)
            /\ ~InLinkText(s, r)

\* the text of the paragraph of a one-line document
LineText(doc) == SubSeq(doc, 1, Len(doc) - 1)

\* the parse state at the start of a render of md
StartState ==
    [pool |-> md.pool, in_link_body |-> 0, trace |-> <<>>,
     leak |-> FALSE, stall |-> FALSE, chain |-> <<>>, deep |-> 0,
     flat |-> FALSE]

\* in s, the backticks at j..j+nb-1 are a whole run
ExactRun(s, j, nb) ==
    /\ j + nb <= Len(s)
    /\ \A x \in j..(j + nb - 1) : By(s, x) = BACKTICK
    /\ (j > 0 => By(s, j - 1) # BACKTICK)
    /\ (j + nb < Len(s) => By(s, j + nb) # BACKTICK)

\* C23: a code span opened by a run of N backticks ends with the first
\* later run of exactly N backticks, a longer run does not close it; with
\* no such run char_codespan returns 0 and calls nothing.
C23_ClosedByExactRun ==
    (pc = "cleanup" /\ document \in TickDocs /\ Len(document) > 1
     /\ document[1] = BACKTICK /\ md.ret0 = {}) =>
        LET s == LineText(document)
            nb == SkipIn(s, 0, Len(s), {BACKTICK})
            closers == {j \in (nb + 1)..Len(s) : ExactRun(s, j, nb)}
            r == char_codespan(<<>>, md, StartState, s, 0, 0, Len(s))
        IN IF closers # {}
           THEN r.ret = Min(closers) + nb /\ r.st.trace = <<"codespan">>
           ELSE r.ret = 0 /\ r.st.trace = <<>> /\ r.ob = <<>>

(***************************************************************************)
(* Fenced code.                                                            *)
(***************************************************************************)
\* the line l is a fence of the character c and nothing else
FenceOf(l, c) == Len(l) >= 3 /\ \A k \in 1..Len(l) : l[k] = c

\* the lines ls up to the first fence of the character c
RECURSIVE UpToFence(_, _)
UpToFence(ls, c) ==
    IF ls = <<>> \/ FenceOf(ls[1], c) THEN <<>>
    ELSE <<ls[1]>> \o UpToFence(Tail(ls), c)

\* the first argument of the first blockcode callback in out
BlockcodeText(out) ==
    LET at == Min({k \in 1..Len(out) : out[k] = 128 + CbIndex["blockcode"]})
        sep == Min({k \in (at + 1)..Len(out) : out[k] = 254})
    IN SubSeq(out, at + 1, sep - 1)

\* C22: a fenced block opened by a fence of the character c ends at the
\* next line that is a fence of c alone; a fence of the other character is
\* part of the code.  The text given to blockcode ends with a newline
\* unless it is empty.
C22_ClosedBySameFence ==
    (pc = "cleanup" /\ mode = "fence") =>
        /\ InTrace("blockcode")
        /\ LET code == BlockcodeText(ob)
           IN code # <<>> => code[Len(code)] = NL
        /\ \A o \in FenceOpeners, ls \in Seqs(FenceLines, MaxFenceLines) :
              document = o \o <<NL>> \o JoinLines(ls) =>
                  BlockcodeText(ob) = JoinLines(UpToFence(ls, o[1]))

(***************************************************************************)
(* The end of an autolink.                                                 *)
(***************************************************************************)
\* the first argument of the first autolink callback in out
AutolinkText(out) ==
    LET at == Min({k \in 1..Len(out) : out[k] = 128 + CbIndex["autolink"]})
        sep == Min({k \in (at + 1)..Len(out) : out[k] = 254})
    IN SubSeq(out, at + 1, sep - 1)

\* C24: the link an autolink recognizer returns does not end in ? ! . or ,
\* nor in a closing " ' ) ] or } that occurs in it another number of times
\* than its opening byte.
C24_BalancedEnd ==
    (pc = "cleanup" /\ mode = "delim" /\ InTrace("autolink")) =>
        LET link == AutolinkText(ob)
            last == link[Len(link)]
        IN /\ link # <<>>
           /\ last \notin {QMARK, BANG, DOT, COMMA}
           /\ delim_open(last) # 0 =>
                 Count(link, {last}) = Count(link, {delim_open(last)})

(***************************************************************************)
(* Lists.                                                                  *)
(***************************************************************************)
\* what the listitem and list callbacks write for the flags
ItemOut(txt, flags) == Emit("listitem", <<txt, FlagArg(flags)>>)
ListOut(items, flags) == Emit("list", <<items, FlagArg(flags)>>)

\* the flags a list starts with, and the text of an inline item
TypeOf(item) == IF item = OItem THEN {MKD_LIST_ORDERED} ELSE {}
TextOf(item) == <<item[Len(item)], NL>>
Other(item) == IF item = OItem THEN UItem ELSE OItem

InDoc(out) == Emit("doc_header", <<>>) \o out \o Emit("doc_footer", <<>>)

OpensOf(out, name) == {k \in 1..Len(out) : out[k] = 128 + CbIndex[name]}

\* the flags of the list item that opens at k: the integer behind the
\* first separator after k
ItemFlags(out, k) ==
    out[Min({j \in (k + 1)..Len(out) : out[j] = 254}) + 1] - 192

\* the list that opens at k ends before the next list or the footer
ListEnd(out, k) ==
    Min({j \in (k + 1)..Len(out) :
            out[j] \in {128 + CbIndex["list"], 128 + CbIndex["doc_footer"]}})

\* the flags of the list that opens at k: its last argument
ListFlags(out, k) == out[ListEnd(out, k) - 2] - 192

ItemsOf(out, k) ==
    {p \in OpensOf(out, "listitem") : p > k /\ p < ListEnd(out, k)}

\* the item that opens at p holds a paragraph
BlockItem(out, p) ==
    \E j \in (p + 1)..Len(out) :
        /\ out[j] = 128 + CbIndex["paragraph"]
        /\ \A x \in (p + 1)..j : out[x] # 254

HasBit(flags, bit) == (flags \div bit) % 2 = 1

ListBits == {MKD_LIST_ORDERED, MKD_LI_BLOCK, MKD_LI_END}

\* C30: in one list, an item after an item given MKD_LI_BLOCK is given
\* MKD_LI_BLOCK too and is parsed as blocks, as every item with that flag
\* and no item without it; a flag given to an item is given to every item
\* after it; the flags of the list callback are the ORDERED bit of the list
\* and the flags of its items together.
C30_FlagsAccumulate ==
    (pc = "cleanup" /\ mode = "list") =>
        \A k \in OpensOf(ob, "list") :
            LET items == ItemsOf(ob, k)
                first_item == Min(items)
            IN /\ items # {}
               /\ \A p \in items, q \in items, b \in ListBits :
                     (p < q /\ HasBit(ItemFlags(ob, p), b))
                         => HasBit(ItemFlags(ob, q), b)
               /\ \A p \in items :
                     HasBit(ItemFlags(ob, p), MKD_LI_BLOCK) <=> BlockItem(ob, p)
               /\ \A b \in ListBits :
                     HasBit(ListFlags(ob, k), b)
                         <=> \E p \in items : HasBit(ItemFlags(ob, p), b)
               /\ \A p \in items :
                     HasBit(ItemFlags(ob, p), MKD_LIST_ORDERED)
                         <=> HasBit(ListFlags(ob, k), MKD_LIST_ORDERED)
               /\ k = Min(OpensOf(ob, "list")) =>
                     (HasBit(ItemFlags(ob, first_item), MKD_LIST_ORDERED)
                         <=> document[1] = OItem[1])

\* - a, - a, a blank line, - a: the first item inline, the others blocks
C30_Witness ==
    /\ pc = "cleanup"
    /\ document = UItem \o <<NL>> \o UItem \o <<NL, NL>> \o UItem \o <<NL>>
    /\ ob = InDoc(ListOut(
               ItemOut(TextOf(UItem), {})
               \o ItemOut(Emit("paragraph", <<<<LA>>>>), {MKD_LI_BLOCK})
               \o ItemOut(Emit("paragraph", <<<<LA>>>>), {MKD_LI_BLOCK}),
               {MKD_LI_BLOCK}))

(***************************************************************************)
(* The depth of the recursion.                                             *)
(***************************************************************************)
\* C26: a recognizer calls parse_block or parse_inline with a buffer of
\* its own active, so every such call that passes the test of the nesting
\* is entered with more buffers active than the call around it, and never
\* more than max_nesting + 1 of them are nested in one another.
C26_DepthBounded ==
    /\ ~ghost.flat
    /\ ghost.deep <= md.max_nesting + 1

\* > a with max_nesting 1: the block parse of the quote is the second and
\* last level, the inline parse of the paragraph is refused
C26_Witness ==
    /\ pc = "cleanup"
    /\ md.max_nesting = 1
    /\ document = <<RANGLE, SP, LA, NL>>
    /\ ghost.deep = 2
    /\ ~InTrace("normal_text")
    /\ InTrace("paragraph")

(***************************************************************************)
(* The order of the callbacks.                                             *)
(***************************************************************************)
\* the callback whose opening byte is b
NameOf(b) == CHOOSE c \in AllCallbacks : 128 + CbIndex[c] = b

\* the callbacks of out in the order in which their output ends; open
\* holds the callbacks whose output has begun and not ended
RECURSIVE CloseOrder(_, _, _)
CloseOrder(out, k, open) ==
    IF k > Len(out) THEN <<>>
    ELSE IF out[k] = 255
    THEN <<open[Len(open)]>>
         \o CloseOrder(out, k + 1, SubSeq(open, 1, Len(open) - 1))
    ELSE IF out[k] > 128 /\ out[k] < 192
    THEN CloseOrder(out, k + 1, Append(open, NameOf(out[k])))
    ELSE CloseOrder(out, k + 1, open)

\* C27: doc_header, when set, is invoked once and first, doc_footer, when
\* set, once and last, for the empty document too; a callback is invoked
\* after the callbacks for what it encloses have returned: with every
\* callback set, the callbacks that write are invoked in the order in
\* which their output ends.
C27_CallbackOrder ==
    (pc = "cleanup" /\ mode = "parse") =>
        /\ Invoked("doc_header") = IF "doc_header" \in md.cb THEN 1 ELSE 0
        /\ Invoked("doc_footer") = IF "doc_footer" \in md.cb THEN 1 ELSE 0
        /\ "doc_header" \in md.cb => trace[1] = "doc_header"
        /\ "doc_footer" \in md.cb => trace[Len(trace)] = "doc_footer"
        /\ (md.cb = AllCallbacks /\ md.ret0 = {}) =>
              SelectSeq(trace, LAMBDA c : c \notin LowCallbacks)
                  = CloseOrder(ob, 1, <<>>)

\* > - a: the item, the list, the quote
C27_Witness ==
    /\ pc = "cleanup"
    /\ md.max_nesting = 16
    /\ document = <<RANGLE, SP, DASH, SP, LA, NL>>
    /\ trace = <<"doc_header", "normal_text", "normal_text", "listitem",
                 "list", "blockquote", "doc_footer">>
    /\ CloseOrder(ob, 1, <<>>)
           = <<"doc_header", "listitem", "list", "blockquote", "doc_footer">>

(***************************************************************************)
(* A label defined more than once.                                         *)
(***************************************************************************)
\* what the link callback writes for [x][l] resolved to the target link
LinkOut(link) == Emit("link", <<link, NULLBUF, <<Letter.x>>>>)

\* C28: when the label of a link, or labels of its fingerprint, are
\* defined by two lines of the document, every link by that label gets the
\* target of the line that comes last, whether the link stands before,
\* between or after the definitions (the newline left of a definition
\* line parts the two links into two paragraphs).
C28_LastDefinitionWins ==
    pc = "cleanup" =>
        \A l1 \in Labels, l2 \in Labels, l3 \in Labels :
            (Fingerprint(l1) = Fingerprint(l2)
             /\ Fingerprint(l2) = Fingerprint(l3)) =>
                /\ IsHashDoc(l1, l2, l3) =>
                      ob = InDoc(Emit("paragraph", <<LinkOut(<<Letter.v>>)>>))
                /\ document = DefOf(l2, <<LU>>) \o UseOf(l1)
                                  \o DefOf(l3, <<Letter.v>>) \o UseOf(l2) =>
                      ob = InDoc(Emit("paragraph", <<LinkOut(<<Letter.v>>)>>)
                                 \o Emit("paragraph", <<LinkOut(<<Letter.v>>)>>))

\* [a]: u, [x][A], [a]: v, [x][a]: both links go to v
C28_Witness ==
    /\ pc = "cleanup"
    /\ document = DefOf(<<LA>>, <<LU>>) \o UseOf(<<65>>)
                      \o DefOf(<<LA>>, <<Letter.v>>) \o UseOf(<<LA>>)
    /\ Invoked("link") = 2
    /\ ob = InDoc(Emit("paragraph", <<LinkOut(<<Letter.v>>)>>)
                  \o Emit("paragraph", <<LinkOut(<<Letter.v>>)>>))

(***************************************************************************)
(* Tables.                                                                 *)
(***************************************************************************)
\* what table_cell writes for the cells of a row of the column alignments
\* als from column j on: the text of the cell when the row has one there,
\* an empty cell when it has not
RECURSIVE CellsOut(_, _, _, _)
CellsOut(cells, als, header_flag, j) ==
    IF j > Len(als) THEN <<>>
    ELSE Emit("table_cell", <<IF j <= Len(cells) THEN cells[j] ELSE <<>>,
                              IntArg(als[j] + header_flag)>>)
         \o CellsOut(cells, als, header_flag, j + 1)

RowOut(cells, als, header_flag) ==
    Emit("table_row", <<CellsOut(cells, als, header_flag, 1)>>)

RECURSIVE RowsOut(_, _)
RowsOut(rows, als) ==
    IF rows = <<>> THEN <<>>
    ELSE RowOut(RowCells(rows[1]), als, 0) \o RowsOut(Tail(rows), als)

TableOut(als, rows) ==
    Emit("table", <<RowOut(HeaderCells(Len(als)), als, MKD_TABLE_HEADER),
                    RowsOut(rows, als)>>)

\* the integer arguments in out, in order
IntArgs(out) == SelectSeq(out, LAMBDA x : x >= 192 /\ x < 253)

\* C29: with TABLES on and table_cell and table_row set, the header row
\* and every body row of a table invoke table_cell once per column of the
\* header line: a row with fewer cells is filled with empty cells, the
\* cells of a row beyond the last column are dropped, every cell is given
\* the alignment of its column, and MKD_TABLE_HEADER is given to the cells
\* of the header row and to no other.
C29_CellsPerRow ==
    (pc = "cleanup" /\ mode = "table") =>
        \A t \in TableShapes :
            document = TableDoc(t[1], t[2]) =>
                /\ Invoked("table_row") = 1 + Len(t[2])
                /\ Invoked("table_cell") = Len(t[1]) * (1 + Len(t[2]))
                /\ IntArgs(ob) = IntArgs(TableOut(t[1], t[2]))
                /\ md.max_nesting = 16 => ob = InDoc(TableOut(t[1], t[2]))

\* two columns, the second to the right; a row of one cell and a row of
\* three
C29_Witness ==
    /\ pc = "cleanup"
    /\ md.max_nesting = 16
    /\ document = TableDoc(<<0, MKD_TABLE_ALIGN_R>>, <<1, 3>>)
    /\ Invoked("table_cell") = 6
    /\ ob = InDoc(Emit("table",
              <<Emit("table_row",
                     <<Emit("table_cell", <<<<LA>>, IntArg(4)>>)
                       \o Emit("table_cell", <<<<LB>>, IntArg(6)>>)>>),
                Emit("table_row",
                     <<Emit("table_cell", <<<<Letter.x>>, IntArg(0)>>)
                       \o Emit("table_cell", <<<<>>, IntArg(2)>>)>>)
                \o Emit("table_row",
                     <<Emit("table_cell", <<<<Letter.x>>, IntArg(0)>>)
                       \o Emit("table_cell", <<<<Letter.y>>, IntArg(2)>>)>>)>>))

====
